---- MODULE Spec2Model ----
(***************************************************************************)
(* Model of syncode's adapter-driven synchronisation engine: the           *)
(* filesystem primitives of src/utils/fs.ts over a symlink-aware           *)
(* filesystem, and the adapters' isLinked / import / export built on them. *)
(*                                                                         *)
(* A filesystem is a function from physical paths (sequences of names, no  *)
(* symlink among the leading components) to nodes.  The root <<>> is an    *)
(* implicit directory.  Every mutating system call can fail: a call either *)
(* fails for the reason the kernel would give (the error code is kept), or *)
(* because of an injected I/O error once the budget `left` is used up.     *)
(***************************************************************************)
EXTENDS Integers, Sequences, FiniteSets, TLC

VARIABLES fs, tool, last, batch, adapters

vars == <<fs, tool, last, batch, adapters>>

-----------------------------------------------------------------------------
(* Bounds of the model *)

\* distinct file contents
MaxData == 2
\* symlinks followed in one path resolution before ELOOP
MaxHops == 3
\* mutating system calls after which an I/O error may be injected
MaxFail == 8
\* agent ids in the configured list of a batch command
MaxAgents == 3
\* largest one-digit component of a version string
MaxPart == 2
\* longest configured repoPath string, in characters
MaxPathLen == 4
\* adapter objects that carry the same id
MaxObjects == 2

Data == 1..MaxData

\* budget of an operation that meets no injected I/O error
NoFail == 0 - 1

-----------------------------------------------------------------------------
(* Paths and nodes *)

Parent(p) == SubSeq(p, 1, Len(p) - 1)
Last(p) == p[Len(p)]
IsPrefix(a, b) == Len(a) <= Len(b) /\ SubSeq(b, 1, Len(a)) = a
Rest(a, b) == SubSeq(b, Len(a) + 1, Len(b))

\* node:path join(a, name)
join(p, name) == Append(p, name)
\* node:path dirname(p)
dirname(p) == Parent(p)

\* symlink targets are stored as written: absolute, or relative to the
\* directory that holds the link
Abs(p) == [abs |-> TRUE, parts |-> p]
Rel(p) == [abs |-> FALSE, parts |-> p]
NoTarget == [abs |-> TRUE, parts |-> <<"?">>]

File(d) == [kind |-> "file", data |-> d, target |-> NoTarget, readable |-> TRUE]
Unreadable(d) == [kind |-> "file", data |-> d, target |-> NoTarget, readable |-> FALSE]
Dir == [kind |-> "dir", data |-> 0, target |-> NoTarget, readable |-> TRUE]
Link(t) == [kind |-> "link", data |-> 0, target |-> t, readable |-> TRUE]
Special(k) == [kind |-> k, data |-> 0, target |-> NoTarget, readable |-> TRUE]

SpecialKinds == {"socket", "fifo", "chardev", "blockdev"}

Has(f, q) == q = <<>> \/ q \in DOMAIN f
KindAt(f, q) == IF q = <<>> THEN "dir" ELSE IF q \in DOMAIN f THEN f[q].kind ELSE "none"

\* the subtree stored at physical path q, as a function of the relative path
Tree(f, q) ==
  LET keys == {k \in DOMAIN f : IsPrefix(q, k)}
  IN [s \in {Rest(q, k) : k \in keys} |-> f[q \o s]]

\* names of the entries of the directory at physical path q
Children(f, q) == {k[Len(q) + 1] : k \in {k \in DOMAIN f : IsPrefix(q, k) /\ Len(k) > Len(q)}}

Failed == [ok |-> FALSE, path |-> <<"?">>]
Found(q) == [ok |-> TRUE, path |-> q]

\* Path resolution as the kernel does it: from the physical directory cur,
\* follow the components of rest, every symlink included.
RECURSIVE Walk(_, _, _, _)
Walk(f, cur, rest, hops) ==
  IF rest = <<>> THEN (IF Has(f, cur) THEN Found(cur) ELSE Failed)
  ELSE IF KindAt(f, cur) # "dir" THEN Failed
  ELSE IF Head(rest) = ".." THEN Walk(f, Parent(cur), Tail(rest), hops)
  ELSE LET q == Append(cur, Head(rest)) IN
    IF q \notin DOMAIN f THEN Failed
    ELSE IF f[q].kind = "link"
      THEN IF hops = 0 THEN Failed
           ELSE Walk(f, IF f[q].target.abs THEN <<>> ELSE cur,
                     f[q].target.parts \o Tail(rest), hops - 1)
      ELSE Walk(f, q, Tail(rest), hops)

\* stat: the physical path p names, every symlink followed
Real(f, p) == Walk(f, <<>>, p, MaxHops)

\* lstat: the physical place of p's last component, which is not followed
In(f, d, name) ==
  IF d.ok /\ KindAt(f, d.path) = "dir" /\ name # ".."
    THEN Found(Append(d.path, name))
    ELSE Failed
Phys(f, p) ==
  IF p = <<>> THEN Found(<<>>) ELSE In(f, Real(f, Parent(p)), Last(p))

\* open(O_CREAT): the physical place a write to p lands, through any
\* symlink at p, dangling or not
RECURSIVE WriteLoc(_, _, _)
Through(f, q, hops) ==
  IF ~q.ok THEN Failed
  ELSE IF KindAt(f, q.path) # "link" THEN q
  ELSE IF hops = 0 THEN Failed
  ELSE WriteLoc(f, IF f[q.path].target.abs THEN f[q.path].target.parts
                   ELSE Parent(q.path) \o f[q.path].target.parts, hops - 1)
WriteLoc(f, p, hops) == Through(f, Phys(f, p), hops)

-----------------------------------------------------------------------------
(* Probes of src/utils/fs.ts: none of them throws *)

exists(f, p) == Real(f, p).ok

IsKind(f, q, kind) == q.ok /\ KindAt(f, q.path) = kind

isSymlink(f, p) == IsKind(f, Phys(f, p), "link")

isDirectory(f, p) == IsKind(f, Real(f, p), "dir")

TargetAt(f, q) == IF IsKind(f, q, "link") THEN f[q.path].target ELSE NoTarget

\* NoTarget stands for null
getSymlinkTarget(f, p) == TargetAt(f, Phys(f, p))

\* statSync(p).isDirectory(), for a path known to exist
statIsDirectory(f, p) == KindAt(f, Real(f, p).path) = "dir"

\* content read through path p (0 when p is no readable regular file)
DataAt(f, q) == IF IsKind(f, q, "file") THEN f[q.path].data ELSE 0
ReadFile(f, p) == DataAt(f, Real(f, p))

-----------------------------------------------------------------------------
(* Mutating system calls.  A run of calls threads a state                  *)
(* [fs, err, left]: err = "" while nothing was thrown, else the code of    *)
(* the error that was thrown (later calls are then not made); left is the  *)
(* number of mutating calls that still succeed before an I/O error (EIO)   *)
(* is injected, NoFail for none.                                           *)

\* null, as a path-valued result
Null == <<"?null">>

Start(f, left) == [fs |-> f, err |-> "", left |-> left, ret |-> Null]
Throw(st, code) == [st EXCEPT !.err = code]
Commit(st, f) ==
  [st EXCEPT !.fs = f, !.left = IF st.left > 0 THEN st.left - 1 ELSE st.left]
Return(st, v) == IF st.err # "" THEN st ELSE [st EXCEPT !.ret = v]
\* catch { }: the error is dropped, what was done so far stays done
Swallow(st) == [st EXCEPT !.err = ""]

Remove(f, keys) == [k \in DOMAIN f \ keys |-> f[k]]
Put(f, q, n) == [k \in DOMAIN f \cup {q} |-> IF k = q THEN n ELSE f[k]]

\* a mutating call is made: not after an error, and not once the budget
\* of successful calls is used up
Blocked(st) == st.err # "" \/ st.left = 0
Refuse(st) == IF st.err # "" THEN st ELSE Throw(st, "EIO")

unlinkAt(st, q) ==
  IF ~q.ok \/ q.path \notin DOMAIN st.fs THEN Throw(st, "ENOENT")
  ELSE IF st.fs[q.path].kind = "dir" THEN Throw(st, "EISDIR")
  ELSE Commit(st, Remove(st.fs, {q.path}))

\* unlinkSync(p)
unlinkSync(st, p) ==
  IF Blocked(st) THEN Refuse(st) ELSE unlinkAt(st, Phys(st.fs, p))

rmdirAt(st, q) ==
  IF ~q.ok \/ q.path \notin DOMAIN st.fs THEN Throw(st, "ENOENT")
  ELSE IF st.fs[q.path].kind # "dir" THEN Throw(st, "ENOTDIR")
  ELSE IF Children(st.fs, q.path) # {} THEN Throw(st, "ENOTEMPTY")
  ELSE Commit(st, Remove(st.fs, {q.path}))

\* rmdirSync(p)
rmdirSync(st, p) ==
  IF Blocked(st) THEN Refuse(st) ELSE rmdirAt(st, Phys(st.fs, p))

\* the filesystem with the subtree at physical path a moved to b
Moved(f, a, b) ==
  LET moved == {k \in DOMAIN f : IsPrefix(a, k)}
      kept == DOMAIN f \ (moved \cup {b})
      dest == {b \o Rest(a, k) : k \in moved}
  IN [k \in kept \cup dest |-> IF k \in dest THEN f[a \o Rest(b, k)] ELSE f[k]]

renameAt(st, qa, qb) ==
  IF ~qa.ok \/ qa.path \notin DOMAIN st.fs \/ ~qb.ok THEN Throw(st, "ENOENT")
  ELSE IF qa.path = qb.path THEN Commit(st, st.fs)
  ELSE IF IsPrefix(qa.path, qb.path) THEN Throw(st, "EINVAL")
  ELSE IF qb.path \in DOMAIN st.fs /\ st.fs[qa.path].kind = "dir"
          /\ st.fs[qb.path].kind # "dir"
    THEN Throw(st, "ENOTDIR")
  ELSE IF qb.path \in DOMAIN st.fs /\ st.fs[qa.path].kind # "dir"
          /\ st.fs[qb.path].kind = "dir"
    THEN Throw(st, "EISDIR")
  ELSE IF qb.path \in DOMAIN st.fs /\ Children(st.fs, qb.path) # {}
    THEN Throw(st, "ENOTEMPTY")
  ELSE Commit(st, Moved(st.fs, qa.path, qb.path))

\* renameSync(a, b): the whole subtree moves; an existing b is replaced
\* when the kernel allows it
renameSync(st, a, b) ==
  IF Blocked(st) THEN Refuse(st) ELSE renameAt(st, Phys(st.fs, a), Phys(st.fs, b))

symlinkAt(st, target, q) ==
  IF ~q.ok THEN Throw(st, "ENOENT")
  ELSE IF Has(st.fs, q.path) THEN Throw(st, "EEXIST")
  ELSE Commit(st, Put(st.fs, q.path, Link(target)))

\* symlinkSync(target, p)
symlinkSync(st, target, p) ==
  IF Blocked(st) THEN Refuse(st) ELSE symlinkAt(st, target, Phys(st.fs, p))

\* the directories mkdirSync(p, {recursive: true}) has to create
RECURSIVE MkdirPlan(_, _)
MkdirInto(up, q) ==
  IF ~up.ok \/ ~q.ok THEN [ok |-> FALSE, fs |-> up.fs]
  ELSE [ok |-> TRUE, fs |-> Put(up.fs, q.path, Dir)]
MkdirUnder(up, p) == MkdirInto(up, IF up.ok THEN Phys(up.fs, p) ELSE Failed)
MkdirPlan(f, p) ==
  IF p = <<>> THEN [ok |-> TRUE, fs |-> f]
  ELSE IF exists(f, p) THEN [ok |-> isDirectory(f, p), fs |-> f]
  ELSE IF isSymlink(f, p) THEN [ok |-> FALSE, fs |-> f]
  ELSE MkdirUnder(MkdirPlan(f, Parent(p)), p)

mkdirDone(st, plan) ==
  IF plan.ok THEN Commit(st, plan.fs) ELSE Throw(st, "EEXIST")

\* mkdirSync(p, {recursive: true})
mkdirSync(st, p) ==
  IF Blocked(st) THEN Refuse(st) ELSE mkdirDone(st, MkdirPlan(st.fs, p))

\* a copy that opens the destination with O_TRUNC before it reads the
\* source: a file copied onto itself is emptied
copyFileTruncating(st, s, d) ==
  IF ~s.ok THEN Throw(st, "ENOENT")
  ELSE IF KindAt(st.fs, s.path) = "dir" THEN Throw(st, "EISDIR")
  ELSE IF KindAt(st.fs, s.path) # "file" THEN Throw(st, "ENOTSUP")
  ELSE IF ~st.fs[s.path].readable THEN Throw(st, "EACCES")
  ELSE IF ~d.ok THEN Throw(st, "ENOENT")
  ELSE IF KindAt(st.fs, d.path) = "dir" THEN Throw(st, "EISDIR")
  ELSE IF KindAt(st.fs, d.path) \notin {"file", "none"} THEN Throw(st, "ENOTSUP")
  ELSE IF d.path = s.path THEN Commit(st, Put(st.fs, d.path, File(0)))
  ELSE IF KindAt(st.fs, d.path) = "file" /\ ~st.fs[d.path].readable
    THEN Throw(st, "EACCES")
  ELSE Commit(st, Put(st.fs, d.path, File(st.fs[s.path].data)))

copyFileAt(st, s, d) ==
  IF ~s.ok THEN Throw(st, "ENOENT")
  ELSE IF KindAt(st.fs, s.path) = "dir" THEN Throw(st, "EISDIR")
  ELSE IF KindAt(st.fs, s.path) # "file" THEN Throw(st, "ENOTSUP")
  ELSE IF ~st.fs[s.path].readable THEN Throw(st, "EACCES")
  ELSE IF ~d.ok THEN Throw(st, "ENOENT")
  ELSE IF KindAt(st.fs, d.path) = "dir" THEN Throw(st, "EISDIR")
  ELSE IF KindAt(st.fs, d.path) \notin {"file", "none"} THEN Throw(st, "ENOTSUP")
  ELSE IF d.path = s.path THEN Commit(st, st.fs)
  ELSE IF KindAt(st.fs, d.path) = "file" /\ ~st.fs[d.path].readable
    THEN Throw(st, "EACCES")
  ELSE Commit(st, Put(st.fs, d.path, File(st.fs[s.path].data)))

\* copyFileSync(src, dest): src is read through symlinks, dest is written
\* through symlinks; copying a file onto itself changes nothing
copyFileSync(st, src, dest) ==
  IF Blocked(st) THEN Refuse(st)
  ELSE copyFileAt(st, Real(st.fs, src), WriteLoc(st.fs, dest, MaxHops))

\* a set as a sequence, in some fixed order
RECURSIVE SetToSeq(_)
SetToSeq(S) ==
  IF S = {} THEN <<>>
  ELSE LET x == CHOOSE x \in S : TRUE IN <<x>> \o SetToSeq(S \ {x})

readdirAt(f, q) ==
  IF ~q.ok \/ KindAt(f, q.path) # "dir" THEN [ok |-> FALSE, entries |-> <<>>]
  ELSE [ok |-> TRUE,
        entries |-> SetToSeq({[name |-> n, kind |-> KindAt(f, Append(q.path, n))] :
                              n \in Children(f, q.path)})]

\* readdirSync(p, {withFileTypes: true}): the Dirent objects, each with
\* its name and the type lstat gives it; ok is FALSE when it throws
readdirSync(f, p) == readdirAt(f, Real(f, p))

-----------------------------------------------------------------------------
(* src/utils/fs.ts *)

\* `${path}.backup`
BackupPath(p) == Append(Parent(p), Last(p) \o ".backup")

ensureDir(st, path) ==
  IF st.err # "" THEN st
  ELSE IF ~exists(st.fs, path) THEN mkdirSync(st, path)
  ELSE st

ensureParentDir(st, filePath) == ensureDir(st, dirname(filePath))

RECURSIVE removeDir(_, _)
RECURSIVE removeEntries(_, _, _, _)
removeListed(st, path, dir) ==
  IF ~dir.ok THEN Throw(st, "ENOTDIR")
  ELSE rmdirSync(removeEntries(st, path, dir.entries, 1), path)

removeDir(st, path) ==
  IF st.err # "" THEN st
  ELSE IF ~exists(st.fs, path) THEN st
  ELSE removeListed(st, path, readdirSync(st.fs, path))

removeEntries(st, path, entries, i) ==
  IF st.err # "" \/ i > Len(entries) THEN st
  ELSE removeEntries(IF entries[i].kind = "dir"
                       THEN removeDir(st, join(path, entries[i].name))
                       ELSE unlinkSync(st, join(path, entries[i].name)),
                     path, entries, i + 1)

\* backup without "If backup already exists, remove it"
keepOldBackup(st, backupPath) == st

\* "If backup already exists, remove it"
removeOldBackup(st, backupPath) ==
  IF st.err = "" /\ exists(st.fs, backupPath)
    THEN IF isDirectory(st.fs, backupPath)
           THEN removeDir(st, backupPath)
           ELSE unlinkSync(st, backupPath)
    ELSE st

backup(st, path) ==
  IF st.err # "" THEN st
  ELSE IF ~exists(st.fs, path) THEN Return(st, Null)
  ELSE IF isSymlink(st.fs, path) THEN Return(st, Null)
  ELSE Return(renameSync(removeOldBackup(st, BackupPath(path)), path, BackupPath(path)),
              BackupPath(path))

copyFile(st, src, dest) == copyFileSync(ensureParentDir(st, dest), src, dest)

SKIP_DIRECTORIES ==
  {".git", ".svn", ".hg", "node_modules", ".cache", "__pycache__", ".DS_Store"}

\* try { unlinkSync(destPath) } catch { }
tryUnlink(st, destPath, gone) == IF gone.err # "" THEN st ELSE gone

relink(st, linkTarget, destPath) ==
  IF st.err # "" THEN Swallow(st)
  ELSE Swallow(symlinkSync(tryUnlink(st, destPath, unlinkSync(st, destPath)),
                           linkTarget, destPath))

\* the symlink branch of copyDir: every error in it is caught and dropped
copySymlink(st, srcPath, destPath) ==
  IF ~isSymlink(st.fs, srcPath) THEN st
  ELSE IF ~exists(st.fs, srcPath) THEN st
  ELSE relink(ensureParentDir(st, destPath),
              getSymlinkTarget(st.fs, srcPath), destPath)

\* catch (error): ENOENT and EACCES are dropped, any other error is
\* thrown again
skipUncopied(st, copied) ==
  IF copied.err \in {"ENOENT", "EACCES"} THEN st ELSE copied

\* the regular-file branch of copyDir
copyEntryFile(st, srcPath, destPath) ==
  skipUncopied(st, copyFileSync(st, srcPath, destPath))

RECURSIVE copyDir(_, _, _)
RECURSIVE copyEntries(_, _, _, _, _)
copyListed(st, src, dest, dir) ==
  IF st.err # "" THEN st
  ELSE IF ~dir.ok THEN Throw(st, "ENOTDIR")
  ELSE copyEntries(st, src, dest, dir.entries, 1)

copyInto(st, src, dest) ==
  copyListed(st, src, dest, readdirSync(st.fs, src))

copyDir(st, src, dest) == copyInto(ensureDir(st, dest), src, dest)

\* the loop body of copyDir without the skip list
copyEntryAll(st, entry, srcPath, destPath) ==
  IF entry.kind = "link" THEN copySymlink(st, srcPath, destPath)
  ELSE IF entry.kind = "dir" THEN copyDir(st, srcPath, destPath)
  ELSE IF entry.kind \in SpecialKinds THEN st
  ELSE copyEntryFile(st, srcPath, destPath)

\* the loop body of copyDir with a directory created but not descended
copyEntryShallow(st, entry, srcPath, destPath) ==
  IF entry.name \in SKIP_DIRECTORIES THEN st
  ELSE IF entry.kind = "link" THEN copySymlink(st, srcPath, destPath)
  ELSE IF entry.kind = "dir" THEN ensureDir(st, destPath)
  ELSE IF entry.kind \in SpecialKinds THEN st
  ELSE copyEntryFile(st, srcPath, destPath)

copyEntry(st, entry, srcPath, destPath) ==
  IF entry.name \in SKIP_DIRECTORIES THEN st
  ELSE IF entry.kind = "link" THEN copySymlink(st, srcPath, destPath)
  ELSE IF entry.kind = "dir" THEN copyDir(st, srcPath, destPath)
  ELSE IF entry.kind \in SpecialKinds THEN st
  ELSE copyEntryFile(st, srcPath, destPath)

copyEntries(st, src, dest, entries, i) ==
  IF st.err # "" \/ i > Len(entries) THEN st
  ELSE copyEntries(copyEntry(st, entries[i], join(src, entries[i].name),
                             join(dest, entries[i].name)),
                   src, dest, entries, i + 1)

\* "Remove existing file/symlink"
removeExistingLink(st, linkPath) ==
  IF st.err = "" /\ (exists(st.fs, linkPath) \/ isSymlink(st.fs, linkPath))
    THEN unlinkSync(st, linkPath)
    ELSE st

createSymlink(st, target, linkPath) ==
  symlinkSync(removeExistingLink(ensureParentDir(st, linkPath), linkPath),
              target, linkPath)

linkAfterBackup(backedUp, target, linkPath) ==
  Return(createSymlink(backedUp, target, linkPath), backedUp.ret)

createSymlinkWithBackup(st, target, linkPath) ==
  linkAfterBackup(backup(st, linkPath), target, linkPath)

-----------------------------------------------------------------------------
(* Paths of the adapters *)

HOME == <<"home">>
RepoRoot == <<"repo">>
\* a place outside the repository a foreign symlink points to
Elsewhere == <<"home", "elsewhere">>

\* getConfigPath(platform): one directory under HOME per tool
getConfigPath(t) == join(HOME, t)
\* getRepoPath(repoRoot) == join(repoRoot, "configs", id)
getRepoPath(t) == join(join(RepoRoot, "configs"), t)

\* node:path normalisation of "..", as resolve() and join() do it
RECURSIVE Normalize(_, _)
Normalize(done, rest) ==
  IF rest = <<>> THEN done
  ELSE IF Head(rest) = ".." THEN Normalize(Parent(done), Tail(rest))
  ELSE Normalize(Append(done, Head(rest)), Tail(rest))

resolve(p) == Normalize(<<>>, p)

RECURSIVE CommonLen(_, _)
CommonLen(a, b) ==
  IF a = <<>> \/ b = <<>> \/ Head(a) # Head(b) THEN 0
  ELSE 1 + CommonLen(Tail(a), Tail(b))

\* node:path relative(from, to)
relative(from, to) ==
  LET c == CommonLen(from, to)
  IN [i \in 1..(Len(from) - c) |-> ".."] \o SubSeq(to, c + 1, Len(to))

\* the result object of import and export; st.err # "" means the handler
\* threw instead of returning it
Res(st, success, message) == [st |-> st, success |-> success, message |-> message]

-----------------------------------------------------------------------------
(* adapters/shared-skills.ts *)

SHARED_SKILLS_DIRNAME == "skills"

getSharedSkillsRepoPath(repoPath) ==
  resolve(repoPath \o <<"..", "..", ".agents", SHARED_SKILLS_DIRNAME>>)

\* the part of linkSharedSkillsInRepo after ensureDir(sharedSkillsRepoPath)
linkSkillsAt(st, linkPath, relativeTarget) ==
  IF st.err # "" THEN st
  ELSE IF isSymlink(st.fs, linkPath)
          /\ getSymlinkTarget(st.fs, linkPath) = relativeTarget THEN st
  ELSE createSymlinkWithBackup(st, relativeTarget, linkPath)

\* the link made with the absolute path of the shared directory
linkSharedSkillsInRepoAbsolute(st, agentRepoPath, sharedSkillsRepoPath) ==
  linkSkillsAt(ensureDir(st, sharedSkillsRepoPath),
               join(agentRepoPath, SHARED_SKILLS_DIRNAME), Abs(sharedSkillsRepoPath))

linkSharedSkillsInRepo(st, agentRepoPath, sharedSkillsRepoPath) ==
  linkSkillsAt(ensureDir(st, sharedSkillsRepoPath),
               join(agentRepoPath, SHARED_SKILLS_DIRNAME),
               Rel(relative(dirname(join(agentRepoPath, SHARED_SKILLS_DIRNAME)),
                            sharedSkillsRepoPath)))

-----------------------------------------------------------------------------
(* The scoped entries of the per-entry adapters.  Of each adapter's       *)
(* syncPatterns the model keeps one file entry and one directory entry.   *)

syncPatterns(t) ==
  CASE t = "cursor" -> <<"settings.json", "snippets">>
    [] t = "windsurf" -> <<"settings.json", "rules">>
    [] t = "claude" -> <<"settings.json", "commands">>
    [] t = "opencode" -> <<"opencode.json", "command">>
    [] t = "vscode" -> <<"settings.json", "snippets">>
    [] OTHER -> <<"settings.json", "skills">>

\* the copy loop the imports and the copy export share: one scoped entry
importEntry(st, srcPath, destPath, pattern) ==
  IF statIsDirectory(st.fs, srcPath)
    THEN Return(copyDir(st, srcPath, destPath), Append(st.ret, pattern \o "/"))
    ELSE Return(copyFileSync(ensureDir(st, dirname(destPath)), srcPath, destPath),
                Append(st.ret, pattern))

-----------------------------------------------------------------------------
(* OpenCode adapter: the whole config root is one symlink *)

OpenCode_isLinked(f, systemPath, repoPath) ==
  IF ~isSymlink(f, systemPath) THEN FALSE
  ELSE getSymlinkTarget(f, systemPath) = Abs(repoPath)

OpenCode_importOne(st, srcPath, destPath, pattern) ==
  IF ~exists(st.fs, srcPath) THEN st
  ELSE importEntry(st, srcPath, destPath, pattern)

RECURSIVE OpenCode_importEntries(_, _, _, _, _)
OpenCode_importEntries(st, systemPath, repoPath, patterns, i) ==
  IF st.err # "" \/ i > Len(patterns) THEN st
  ELSE OpenCode_importEntries(
         OpenCode_importOne(st, join(systemPath, patterns[i]),
                            join(repoPath, patterns[i]), patterns[i]),
         systemPath, repoPath, patterns, i + 1)

OpenCode_import(st, systemPath, repoPath) ==
  IF ~exists(st.fs, systemPath) \/ ~isDirectory(st.fs, systemPath)
    THEN Res(st, FALSE, "not found on system")
  ELSE IF OpenCode_isLinked(st.fs, systemPath, repoPath)
    THEN Res(st, TRUE, "already linked")
  ELSE IF exists(st.fs, repoPath)
    THEN Res(st, TRUE, "already in repo")
  ELSE Res(OpenCode_importEntries(Return(ensureDir(st, repoPath), <<>>),
                                  systemPath, repoPath, syncPatterns("opencode"), 1),
           TRUE, "imported")

\* OpenCode_clear that deletes the existing config instead of moving it
OpenCode_clearNoBackup(st, systemPath, backupPath) ==
  IF exists(st.fs, systemPath) /\ ~isSymlink(st.fs, systemPath)
    THEN removeDir(st, systemPath)
  ELSE IF isSymlink(st.fs, systemPath) THEN unlinkSync(st, systemPath)
  ELSE st

\* export, from "Backup existing config if it exists and is not a
\* symlink" to "Remove existing symlink if it exists"
OpenCode_clear(st, systemPath, backupPath) ==
  IF exists(st.fs, systemPath) /\ ~isSymlink(st.fs, systemPath)
    THEN renameSync(IF exists(st.fs, backupPath)
                      THEN removeDir(st, backupPath) ELSE st,
                    systemPath, backupPath)
  ELSE IF isSymlink(st.fs, systemPath) THEN unlinkSync(st, systemPath)
  ELSE st

OpenCode_export(st, repoPath, systemPath) ==
  IF ~exists(st.fs, repoPath) \/ ~isDirectory(st.fs, repoPath)
    THEN Res(st, FALSE, "not found in repo")
  ELSE IF isSymlink(st.fs, systemPath)
          /\ getSymlinkTarget(st.fs, systemPath) = Abs(repoPath)
    THEN Res(st, TRUE, "already linked")
  ELSE Res(symlinkSync(ensureDir(OpenCode_clear(st, systemPath, BackupPath(systemPath)),
                                 dirname(systemPath)),
                       Abs(repoPath), systemPath),
           TRUE, "linked")

-----------------------------------------------------------------------------
(* Cursor adapter: every scoped entry is its own symlink *)

Cursor_isLinked(f, systemPath, repoPath) ==
  IF ~isSymlink(f, join(systemPath, "settings.json")) THEN FALSE
  ELSE getSymlinkTarget(f, join(systemPath, "settings.json"))
         = Abs(join(repoPath, "settings.json"))

Cursor_importOne(st, srcPath, destPath, pattern) ==
  IF ~exists(st.fs, srcPath) THEN st
  ELSE importEntry(st, srcPath, destPath, pattern)

RECURSIVE Cursor_importEntries(_, _, _, _, _)
Cursor_importEntries(st, systemPath, repoPath, patterns, i) ==
  IF st.err # "" \/ i > Len(patterns) THEN st
  ELSE Cursor_importEntries(
         Cursor_importOne(st, join(systemPath, patterns[i]),
                          join(repoPath, patterns[i]), patterns[i]),
         systemPath, repoPath, patterns, i + 1)

\* the import result, from the copied paths
importResult(done) ==
  IF done.err = "" /\ Len(done.ret) = 0
    THEN Res(done, TRUE, "nothing to import")
    ELSE Res(done, TRUE, "imported")

Cursor_importWith(st, systemPath, repoPath, patterns) ==
  IF ~exists(st.fs, systemPath) \/ ~isDirectory(st.fs, systemPath)
    THEN Res(st, FALSE, "not found on system")
  ELSE importResult(Cursor_importEntries(Return(ensureDir(st, repoPath), <<>>),
                                         systemPath, repoPath, patterns, 1))

Cursor_import(st, systemPath, repoPath) ==
  Cursor_importWith(st, systemPath, repoPath, syncPatterns("cursor"))

\* one turn of the export loop: back up real content, unlink a symlink,
\* then link the entry to the repository
\* Cursor_clear without the "not a symlink" test: a symlink is backed up
\* like real content
Cursor_clearAnything(st, destPath, backupPath) ==
  IF exists(st.fs, destPath)
    THEN renameSync(IF exists(st.fs, backupPath)
                      THEN IF isDirectory(st.fs, backupPath)
                             THEN removeDir(st, backupPath)
                             ELSE unlinkSync(st, backupPath)
                      ELSE st,
                    destPath, backupPath)
  ELSE IF isSymlink(st.fs, destPath) THEN unlinkSync(st, destPath)
  ELSE st

Cursor_clear(st, destPath, backupPath) ==
  IF exists(st.fs, destPath) /\ ~isSymlink(st.fs, destPath)
    THEN renameSync(IF exists(st.fs, backupPath)
                      THEN IF isDirectory(st.fs, backupPath)
                             THEN removeDir(st, backupPath)
                             ELSE unlinkSync(st, backupPath)
                      ELSE st,
                    destPath, backupPath)
  ELSE IF isSymlink(st.fs, destPath) THEN unlinkSync(st, destPath)
  ELSE st

Cursor_exportEntry(st, srcPath, destPath) ==
  symlinkSync(Cursor_clear(st, destPath, BackupPath(destPath)), Abs(srcPath), destPath)

\* if (!existsSync(srcPath)) continue
Cursor_exportOne(st, srcPath, destPath, pattern) ==
  IF ~exists(st.fs, srcPath) THEN st
  ELSE Return(Cursor_exportEntry(st, srcPath, destPath), Append(st.ret, pattern))

RECURSIVE Cursor_exportEntries(_, _, _, _, _)
Cursor_exportEntries(st, repoPath, systemPath, patterns, i) ==
  IF st.err # "" \/ i > Len(patterns) THEN st
  ELSE Cursor_exportEntries(
         Cursor_exportOne(st, join(repoPath, patterns[i]),
                          join(systemPath, patterns[i]), patterns[i]),
         repoPath, systemPath, patterns, i + 1)

Cursor_exportWith(st, repoPath, systemPath, patterns) ==
  IF ~exists(st.fs, repoPath) \/ ~isDirectory(st.fs, repoPath)
    THEN Res(st, FALSE, "not found in repo")
  ELSE Res(Cursor_exportEntries(Return(ensureDir(st, systemPath), <<>>),
                                repoPath, systemPath, patterns, 1),
           TRUE, "linked")

Cursor_export(st, repoPath, systemPath) ==
  Cursor_exportWith(st, repoPath, systemPath, syncPatterns("cursor"))

-----------------------------------------------------------------------------
(* Windsurf adapter: the code of the Cursor adapter with its own entries *)

Windsurf_isLinked(f, systemPath, repoPath) ==
  IF ~isSymlink(f, join(systemPath, "settings.json")) THEN FALSE
  ELSE getSymlinkTarget(f, join(systemPath, "settings.json"))
         = Abs(join(repoPath, "settings.json"))

Windsurf_import(st, systemPath, repoPath) ==
  Cursor_importWith(st, systemPath, repoPath, syncPatterns("windsurf"))

Windsurf_export(st, repoPath, systemPath) ==
  Cursor_exportWith(st, repoPath, systemPath, syncPatterns("windsurf"))

-----------------------------------------------------------------------------
(* Claude adapter: copy in both directions *)

\* an isLinked that also compares the settings of the two sides
Claude_isLinkedByContent(f, systemPath, repoPath) ==
  /\ exists(f, systemPath) /\ exists(f, repoPath)
  /\ ReadFile(f, join(systemPath, "settings.json"))
       = ReadFile(f, join(repoPath, "settings.json"))

Claude_isLinked(f, systemPath, repoPath) ==
  exists(f, systemPath) /\ exists(f, repoPath)

Claude_importOne(st, srcPath, destPath, pattern) ==
  IF ~exists(st.fs, srcPath) THEN st
  ELSE IF isSymlink(st.fs, srcPath) THEN st
  ELSE IF exists(st.fs, destPath) THEN st
  ELSE importEntry(st, srcPath, destPath, pattern)

RECURSIVE Claude_importEntries(_, _, _, _, _)
Claude_importEntries(st, systemPath, repoPath, patterns, i) ==
  IF st.err # "" \/ i > Len(patterns) THEN st
  ELSE Claude_importEntries(
         Claude_importOne(st, join(systemPath, patterns[i]),
                          join(repoPath, patterns[i]), patterns[i]),
         systemPath, repoPath, patterns, i + 1)

Claude_import(st, systemPath, repoPath) ==
  IF ~exists(st.fs, systemPath) \/ ~isDirectory(st.fs, systemPath)
    THEN Res(st, FALSE, "not found on system")
  ELSE importResult(Claude_importEntries(Return(ensureDir(st, repoPath), <<>>),
                                         systemPath, repoPath, syncPatterns("claude"), 1))

\* the loop body of export without the test for an existing destination
Claude_exportOverwriting(st, srcPath, destPath, pattern) ==
  IF ~exists(st.fs, srcPath) THEN st
  ELSE importEntry(st, srcPath, destPath, pattern)

Claude_exportOne(st, srcPath, destPath, pattern) ==
  IF ~exists(st.fs, srcPath) THEN st
  ELSE IF exists(st.fs, destPath) THEN st
  ELSE importEntry(st, srcPath, destPath, pattern)

RECURSIVE Claude_exportEntries(_, _, _, _, _)
Claude_exportEntries(st, repoPath, systemPath, patterns, i) ==
  IF st.err # "" \/ i > Len(patterns) THEN st
  ELSE Claude_exportEntries(
         Claude_exportOne(st, join(repoPath, patterns[i]),
                          join(systemPath, patterns[i]), patterns[i]),
         repoPath, systemPath, patterns, i + 1)

Claude_export(st, repoPath, systemPath) ==
  IF ~exists(st.fs, repoPath) \/ ~isDirectory(st.fs, repoPath)
    THEN Res(st, FALSE, "not found in repo")
  ELSE Res(Claude_exportEntries(Return(ensureDir(st, systemPath), <<>>),
                                repoPath, systemPath, syncPatterns("claude"), 1),
           TRUE, "copied")

-----------------------------------------------------------------------------
(* Trae adapter: root symlink, no "already linked" test *)

Trae_isLinked(f, systemPath, repoPath) ==
  exists(f, systemPath) /\ exists(f, repoPath) /\ isSymlink(f, systemPath)

Trae_import(st, systemPath, repoPath) ==
  IF ~exists(st.fs, systemPath) THEN Res(st, FALSE, "not found on system")
  ELSE Res(copyDir(ensureDir(st, repoPath), systemPath, repoPath), TRUE, "imported")

\* "Remove existing (symlink or directory)", shared by the root adapters
clearBackup(st, backupPath) ==
  IF exists(st.fs, backupPath)
    THEN IF isSymlink(st.fs, backupPath)
           THEN unlinkSync(st, backupPath)
           ELSE removeDir(st, backupPath)
    ELSE st

\* removeExisting that moves the config onto the old backup without
\* keeping the content: the directory is deleted
removeExistingNoBackup(st, systemPath) ==
  IF ~exists(st.fs, systemPath) THEN st
  ELSE IF isSymlink(st.fs, systemPath) THEN unlinkSync(st, systemPath)
  ELSE removeDir(clearBackup(st, BackupPath(systemPath)), systemPath)

removeExisting(st, systemPath) ==
  IF ~exists(st.fs, systemPath) THEN st
  ELSE IF isSymlink(st.fs, systemPath) THEN unlinkSync(st, systemPath)
  ELSE renameSync(clearBackup(st, BackupPath(systemPath)),
                  systemPath, BackupPath(systemPath))

Trae_export(st, repoPath, systemPath) ==
  IF ~exists(st.fs, repoPath) THEN Res(st, FALSE, "not found in repo")
  ELSE Res(createSymlink(removeExisting(st, systemPath), Abs(repoPath), systemPath),
           TRUE, "linked")

-----------------------------------------------------------------------------
(* Devin adapter: root symlink, and the repository's skills slot linked   *)
(* into the shared skills directory                                        *)

Devin_isLinked(f, systemPath, repoPath) ==
  IF ~exists(f, systemPath) \/ ~exists(f, repoPath) \/ ~isSymlink(f, systemPath)
    THEN FALSE
    ELSE getSymlinkTarget(f, systemPath) = Abs(repoPath)

Devin_import(st, systemPath, repoPath) ==
  IF ~exists(st.fs, systemPath) THEN Res(st, FALSE, "not found on system")
  ELSE IF isSymlink(st.fs, systemPath) THEN Res(st, TRUE, "already linked")
  ELSE IF exists(st.fs, repoPath) THEN Res(st, TRUE, "already in repo")
  ELSE Res(copyDir(ensureDir(st, repoPath), systemPath, repoPath), TRUE, "imported")

Devin_export(st, repoPath, systemPath) ==
  IF ~exists(st.fs, repoPath) THEN Res(st, FALSE, "not found in repo")
  ELSE IF isSymlink(st.fs, systemPath)
          /\ getSymlinkTarget(st.fs, systemPath) = Abs(repoPath)
    THEN Res(st, TRUE, "already linked")
  ELSE Res(linkSharedSkillsInRepo(
             createSymlink(removeExisting(st, systemPath), Abs(repoPath), systemPath),
             repoPath, getSharedSkillsRepoPath(repoPath)),
           TRUE, "linked")

-----------------------------------------------------------------------------
(* Dispatch on the adapter, as adapterRegistry.get(id) does *)

Tools == {"opencode", "cursor", "windsurf", "claude", "trae", "devin"}

exportStrategy(t) == IF t = "claude" THEN "copy" ELSE "symlink"

\* adapters that link each scoped entry instead of the config root
PerEntry == {"cursor", "windsurf"}

isLinked(t, f, systemPath, repoPath) ==
  CASE t = "opencode" -> OpenCode_isLinked(f, systemPath, repoPath)
    [] t = "cursor" -> Cursor_isLinked(f, systemPath, repoPath)
    [] t = "windsurf" -> Windsurf_isLinked(f, systemPath, repoPath)
    [] t = "claude" -> Claude_isLinked(f, systemPath, repoPath)
    [] t = "trae" -> Trae_isLinked(f, systemPath, repoPath)
    [] t = "devin" -> Devin_isLinked(f, systemPath, repoPath)

import(t, st, systemPath, repoPath) ==
  CASE t = "opencode" -> OpenCode_import(st, systemPath, repoPath)
    [] t = "cursor" -> Cursor_import(st, systemPath, repoPath)
    [] t = "windsurf" -> Windsurf_import(st, systemPath, repoPath)
    [] t = "claude" -> Claude_import(st, systemPath, repoPath)
    [] t = "trae" -> Trae_import(st, systemPath, repoPath)
    [] t = "devin" -> Devin_import(st, systemPath, repoPath)

export(t, st, repoPath, systemPath) ==
  CASE t = "opencode" -> OpenCode_export(st, repoPath, systemPath)
    [] t = "cursor" -> Cursor_export(st, repoPath, systemPath)
    [] t = "windsurf" -> Windsurf_export(st, repoPath, systemPath)
    [] t = "claude" -> Claude_export(st, repoPath, systemPath)
    [] t = "trae" -> Trae_export(st, repoPath, systemPath)
    [] t = "devin" -> Devin_export(st, repoPath, systemPath)

\* statusCommand: the status text of one agent row
statusOf(linked, existsInRepo, existsOnSystem) ==
  IF linked THEN "linked"
  ELSE IF existsInRepo /\ existsOnSystem THEN "synced"
  ELSE IF existsInRepo /\ ~existsOnSystem THEN "in repo only"
  ELSE IF ~existsInRepo /\ existsOnSystem THEN "on system only"
  ELSE "not found"

statusText(t, f) ==
  statusOf(isLinked(t, f, getConfigPath(t), getRepoPath(t)),
           exists(f, getRepoPath(t)), exists(f, getConfigPath(t)))

-----------------------------------------------------------------------------
(* The filesystems a run starts from *)

NoTree == [k \in {} |-> Dir]
Leaf(n) == [k \in {<<>>} |-> n]
\* the tree, placed at path p
At(p, tree) == [k \in {p \o s : s \in DOMAIN tree} |-> tree[Rest(p, k)]]
DirWith(name, d) == Leaf(Dir) @@ At(<<name>>, Leaf(File(d)))

E1(t) == syncPatterns(t)[1]
E2(t) == syncPatterns(t)[2]

\* what never changes: the home directory, the repository root and a
\* directory outside the repository
Base ==
  At(HOME, Leaf(Dir)) @@ At(Elsewhere, DirWith("x.txt", 1))
  @@ At(RepoRoot, Leaf(Dir)) @@ At(join(RepoRoot, "configs"), Leaf(Dir))

\* a scoped file entry on the system side
SysFileEntries(t) ==
  {NoTree} \cup {Leaf(File(d)) : d \in Data}
  \cup {Leaf(Link(Abs(join(getRepoPath(t), E1(t))))), Leaf(Link(Abs(Elsewhere)))}

\* a scoped directory entry on the system side
SysDirEntries(t) ==
  {NoTree, DirWith("a.txt", MaxData), Leaf(Link(Abs(join(getRepoPath(t), E2(t)))))}

\* backups left by earlier runs
FileBackups == {NoTree, Leaf(File(1))}
DirBackups == {NoTree, DirWith("old.txt", 1)}

\* the config root of an adapter that links or copies entry by entry
EntryRoots(t) ==
  {NoTree, Leaf(Link(Abs(getRepoPath(t))))}
  \cup {Leaf(Dir) @@ At(<<E1(t)>>, e1) @@ At(<<BackupPath(<<E1(t)>>)[1]>>, b1)
          @@ At(<<E2(t)>>, e2) @@ At(<<BackupPath(<<E2(t)>>)[1]>>, b2) :
        e1 \in SysFileEntries(t), b1 \in FileBackups,
        e2 \in SysDirEntries(t), b2 \in DirBackups}

\* the config root of an adapter that links the whole root
WholeRoots(t) ==
  {NoTree, Leaf(Link(Abs(getRepoPath(t)))), Leaf(Link(Abs(Elsewhere)))}
  \cup {Leaf(Dir) @@ At(<<E1(t)>>, e1) @@ At(<<E2(t)>>, e2) :
        e1 \in {NoTree} \cup {Leaf(File(d)) : d \in Data},
        e2 \in {NoTree, DirWith("a.txt", MaxData)}}

RootBackups == {NoTree, Leaf(File(1)), DirWith("old.txt", 1)}

\* the tool's slot in the repository
RepoSlots(t) ==
  {NoTree} \cup (IF t \in PerEntry \cup {"claude"} THEN {} ELSE {Leaf(File(1))})
  \cup {Leaf(Dir) @@ At(<<E1(t)>>, r1) @@ At(<<E2(t)>>, r2) :
        r1 \in {NoTree} \cup {Leaf(File(d)) : d \in Data},
        r2 \in {NoTree, DirWith("a.txt", 1)}}

InitialFs(t) ==
  IF t \in PerEntry \cup {"claude"}
    THEN {Base @@ At(getConfigPath(t), s) @@ At(getRepoPath(t), r) :
          s \in EntryRoots(t), r \in RepoSlots(t)}
    ELSE {Base @@ At(getConfigPath(t), s) @@ At(BackupPath(getConfigPath(t)), b)
            @@ At(getRepoPath(t), r) :
          s \in WholeRoots(t), b \in RootBackups, r \in RepoSlots(t)}

-----------------------------------------------------------------------------
(* The state machine: one tool, its filesystem, and the last operation    *)
(* with the filesystem it started from and what it returned                *)

\* no batch command is running
NoBatch == [op |-> "none", configured |-> <<>>, agents |-> <<>>, i |-> 1,
            successCount |-> 0,
            skipCount |-> 0, failCount |-> 0, handled |-> <<>>, errors |-> <<>>,
            log |-> <<>>, done |-> FALSE]

Idle == [op |-> "init", pre |-> NoTree, err |-> "", success |-> FALSE,
         message |-> "", left |-> NoFail, path |-> Null, ret |-> Null]

\* adapterRegistry after registerBuiltinAdapters(), for the adapters of
\* this model that it registers: each entry enabled
builtinAdapters ==
  [k \in 1..7 |->
     [id |-> <<"claude", "clawdbot", "cursor", "opencode", "trae", "vscode", "windsurf">>[k],
      adapter |-> [id |-> <<"claude", "clawdbot", "cursor", "opencode", "trae", "vscode",
                            "windsurf">>[k],
                   object |-> 1],
      enabled |-> TRUE]]

\* the command ran the handler, which returned r or threw
Ran(op, left, r) ==
  /\ fs' = r.st.fs
  /\ last' = [op |-> op, pre |-> fs, err |-> r.st.err,
              success |-> r.st.err = "" /\ r.success,
              message |-> IF r.st.err = "" THEN r.message ELSE "thrown",
              left |-> left, path |-> getConfigPath(tool), ret |-> Null]
  /\ UNCHANGED batch

Init ==
  /\ tool \in Tools
  /\ fs \in InitialFs(tool)
  /\ last = Idle
  /\ batch = NoBatch
  /\ adapters = builtinAdapters

\* sync export of the tool; the I/O error, if any, comes after `left`
\* successful mutating calls
Export(left) ==
  /\ Ran("export", left,
         export(tool, Start(fs, left), getRepoPath(tool), getConfigPath(tool)))
  /\ UNCHANGED <<tool, adapters>>

\* sync import of the tool
Import ==
  /\ Ran("import", NoFail,
         import(tool, Start(fs, NoFail), getConfigPath(tool), getRepoPath(tool)))
  /\ UNCHANGED <<tool, adapters>>

\* status of the tool: the filesystem is only read
Status ==
  /\ last' = [op |-> "status", pre |-> fs, err |-> "", success |-> TRUE,
              message |-> statusText(tool, fs), left |-> NoFail,
              path |-> getConfigPath(tool), ret |-> Null]
  /\ UNCHANGED <<fs, tool, batch, adapters>>

\* the user edits the scoped file entry on one side, writing through
\* whatever symlink is there
EditablePaths(t) == {join(getConfigPath(t), E1(t)), join(getRepoPath(t), E1(t))}

WriteAt(q, d) ==
  /\ IsKind(fs, q, "file")
  /\ fs[q.path].data # d
  /\ fs' = Put(fs, q.path, File(d))
  /\ last' = [Idle EXCEPT !.op = "edit"]
  /\ UNCHANGED <<tool, batch, adapters>>

WriteFile(p, d) == WriteAt(Real(fs, p), d)

Next ==
  \/ Export(NoFail)
  \/ Import
  \/ Status
  \/ \E p \in EditablePaths(tool), d \in Data : WriteFile(p, d)

Spec == Init /\ [][Next]_vars

\* the same tools and filesystems, with exports that meet an I/O error
\* after 0..MaxFail successful mutating calls
NextFault == \E left \in 0..MaxFail : Export(left)

SpecFault == Init /\ [][NextFault]_vars

-----------------------------------------------------------------------------
(* src/utils/fs.ts on its own: copyDir and backup called on a work area   *)

WORK == <<"work">>
SRC == join(WORK, "src")
DEST == join(WORK, "dest")

Within(name, tree) == At(<<name>>, tree)

\* what the sub-directory of the source holds beside its regular file
SubDirs ==
  {Leaf(Dir) @@ Within("b.txt", Leaf(File(1))) @@ skipped @@ Within("dev", sp) :
   skipped \in {NoTree, Within("node_modules", DirWith("index.js", 1))
                          @@ Within(".DS_Store", Leaf(File(1)))},
   sp \in {NoTree} \cup {Leaf(Special(k)) : k \in SpecialKinds}}

SrcTrees ==
  {Leaf(Dir) @@ Within("a.txt", a) @@ Within(".git", g) @@ Within("sub", sub)
     @@ Within("ln", ln) :
   a \in {NoTree, Leaf(Unreadable(1))} \cup {Leaf(File(d)) : d \in Data},
   g \in {NoTree, DirWith("config", 1)},
   sub \in {NoTree} \cup SubDirs,
   ln \in {NoTree, Leaf(Link(Rel(<<"a.txt">>)))}}

DestTrees ==
  {NoTree, Leaf(Dir), DirWith("a.txt", MaxData),
   Leaf(Dir) @@ Within("a.txt", Leaf(Unreadable(MaxData))),
   Leaf(Dir) @@ Within("a.txt", Leaf(Dir)),
   DirWith("ln", MaxData), Leaf(Dir) @@ Within("ln", DirWith("kept.txt", MaxData))}

\* backups left by earlier calls of backup(SRC) and backup(SRC/a.txt):
\* backup moves real content only, so a backup is a file or a directory
OldBackups ==
  {NoTree, At(BackupPath(SRC), Leaf(File(1))),
   At(BackupPath(SRC), DirWith("old.txt", 1))
     @@ At(BackupPath(join(SRC, "a.txt")), Leaf(File(1)))}

WorkFs ==
  {At(WORK, Leaf(Dir)) @@ At(SRC, s) @@ At(DEST, d) @@ b :
   s \in SrcTrees, d \in DestTrees, b \in OldBackups}

\* the paths backup is called on
BackupArgs == {SRC, join(SRC, "a.txt"), join(SRC, "ln")}

InitFs ==
  /\ tool = "fs"
  /\ fs \in WorkFs
  /\ last = Idle
  /\ batch = NoBatch
  /\ adapters = builtinAdapters

\* the call returned (st.err = "") or threw
Called(op, path, st) ==
  /\ fs' = st.fs
  /\ last' = [op |-> op, pre |-> fs, err |-> st.err, success |-> st.err = "",
              message |-> "", left |-> NoFail, path |-> path, ret |-> st.ret]
  /\ UNCHANGED <<tool, batch, adapters>>

CopyDir == Called("copyDir", SRC, copyDir(Start(fs, NoFail), SRC, DEST))

Backup(path) == Called("backup", path, backup(Start(fs, NoFail), path))

NextFs ==
  \/ CopyDir
  \/ \E path \in BackupArgs : Backup(path)

SpecFs == InitFs /\ [][NextFs]_vars

-----------------------------------------------------------------------------
(* commands/unsync.ts *)

\* the directory branch of copyDirReplacingSymlinks: a symlink, or a file
\* where the directory has to be, is unlinked
unblockDir(st, destPath) ==
  IF st.err # "" THEN st
  ELSE IF isSymlink(st.fs, destPath) THEN unlinkSync(st, destPath)
  ELSE IF exists(st.fs, destPath) /\ ~isDirectory(st.fs, destPath)
    THEN unlinkSync(st, destPath)
  ELSE st

\* the file branch: a symlink is unlinked, a directory where the file has
\* to be is removed with all it holds
unblockFile(st, destPath) ==
  IF st.err # "" THEN st
  ELSE IF isSymlink(st.fs, destPath) THEN unlinkSync(st, destPath)
  ELSE IF exists(st.fs, destPath) /\ isDirectory(st.fs, destPath)
    THEN removeDir(st, destPath)
  ELSE st

RECURSIVE copyDirReplacingSymlinks(_, _, _)
RECURSIVE replaceEntries(_, _, _, _, _)
replaceListed(st, src, dest, dir) ==
  IF st.err # "" THEN st
  ELSE IF ~dir.ok THEN Throw(st, "ENOTDIR")
  ELSE replaceEntries(st, src, dest, dir.entries, 1)

replaceInto(st, src, dest) ==
  replaceListed(st, src, dest, readdirSync(st.fs, src))

copyDirReplacingSymlinks(st, src, dest) == replaceInto(ensureDir(st, dest), src, dest)

\* the loop body: entry.isDirectory() is the type of the entry itself, so
\* a symlink in src takes the file branch
replaceEntry(st, entry, srcPath, destPath) ==
  IF entry.kind = "dir"
    THEN copyDirReplacingSymlinks(ensureDir(unblockDir(st, destPath), destPath),
                                  srcPath, destPath)
    ELSE copyFileSync(ensureDir(unblockFile(st, destPath), dirname(destPath)),
                      srcPath, destPath)

replaceEntries(st, src, dest, entries, i) ==
  IF st.err # "" \/ i > Len(entries) THEN st
  ELSE replaceEntries(replaceEntry(st, entries[i], join(src, entries[i].name),
                                   join(dest, entries[i].name)),
                      src, dest, entries, i + 1)

unsyncSymlinkedConfig(st, repoPath, systemPath) ==
  IF ~exists(st.fs, repoPath) \/ ~isDirectory(st.fs, repoPath)
    THEN Res(st, FALSE, "configs not found in repo")
  ELSE IF isSymlink(st.fs, systemPath)
    THEN Res(copyDir(unlinkSync(st, systemPath), repoPath, systemPath),
             TRUE, "unsynced")
  ELSE Res(copyDirReplacingSymlinks(ensureDir(st, systemPath), repoPath, systemPath),
           TRUE, "unsynced")

\* a turn that does not ask whether the tool is linked
unsyncUnasked(t, st, systemPath, agentRepoPath) ==
  IF exportStrategy(t) # "symlink" THEN Res(st, FALSE, "copy strategy - skipped")
  ELSE unsyncSymlinkedConfig(st, agentRepoPath, systemPath)

\* one turn of unsyncCommand's loop for a registered adapter
unsyncAgent(t, st, systemPath, agentRepoPath) ==
  IF exportStrategy(t) # "symlink" THEN Res(st, FALSE, "copy strategy - skipped")
  ELSE IF ~isLinked(t, st.fs, systemPath, agentRepoPath)
    THEN Res(st, FALSE, "not linked - skipped")
  ELSE unsyncSymlinkedConfig(st, agentRepoPath, systemPath)

\* system-side content in the way of the repository's entries: a file
\* where the repository has the directory entry, or a directory where the
\* repository has a file of the directory entry
BlockedEntries == {Leaf(File(MaxData)), Leaf(Dir) @@ At(<<"a.txt">>, DirWith("deep.txt", MaxData))}

\* linked per-entry config roots with such content
BlockedRoots(t) ==
  {Leaf(Dir) @@ At(<<E1(t)>>, Leaf(Link(Abs(join(getRepoPath(t), E1(t))))))
     @@ At(<<E2(t)>>, e2) @@ At(<<BackupPath(<<E2(t)>>)[1]>>, b2) :
   e2 \in BlockedEntries, b2 \in DirBackups}

\* a regular file where the config root should be
FileRoots(t) ==
  {Base @@ At(getConfigPath(t), Leaf(File(1))) @@ At(getRepoPath(t), r) :
   r \in {NoTree, DirWith(E1(t), 1)}}

UnsyncFs(t) ==
  InitialFs(t) \cup FileRoots(t)
  \cup (IF t \in PerEntry
          THEN {Base @@ At(getConfigPath(t), s) @@ At(getRepoPath(t), r) :
                s \in BlockedRoots(t), r \in RepoSlots(t)}
          ELSE {})

InitUnsync ==
  /\ tool \in Tools
  /\ fs \in UnsyncFs(tool)
  /\ last = Idle
  /\ batch = NoBatch
  /\ adapters = builtinAdapters

\* unsync of the tool
Unsync ==
  /\ Ran("unsync", NoFail,
         unsyncAgent(tool, Start(fs, NoFail), getConfigPath(tool), getRepoPath(tool)))
  /\ UNCHANGED <<tool, adapters>>

NextUnsync ==
  \/ Export(NoFail)
  \/ Import
  \/ Unsync

SpecUnsync == InitUnsync /\ [][NextUnsync]_vars

-----------------------------------------------------------------------------
(* VSCode adapter: every scoped entry is its own symlink; import links the *)
(* system skills path to the shared skills directory                        *)

\* adapters/shared-skills.ts: join(HOME, ".agents", "skills")
getSharedSkillsPath == join(join(HOME, ".agents"), SHARED_SKILLS_DIRNAME)

\* the link made without a backup of what is in its place
linkSharedSkillsUnsaved(st, agentSkillsPath, sharedSkillsPath) ==
  IF st.err # "" THEN st
  ELSE IF isSymlink(st.fs, agentSkillsPath)
          /\ getSymlinkTarget(st.fs, agentSkillsPath) = Abs(sharedSkillsPath) THEN st
  ELSE createSymlink(st, Abs(sharedSkillsPath), agentSkillsPath)

linkSharedSkillsOnSystemAt(st, agentSkillsPath, sharedSkillsPath) ==
  IF st.err # "" THEN st
  ELSE IF isSymlink(st.fs, agentSkillsPath)
          /\ getSymlinkTarget(st.fs, agentSkillsPath) = Abs(sharedSkillsPath) THEN st
  ELSE createSymlinkWithBackup(st, Abs(sharedSkillsPath), agentSkillsPath)

linkSharedSkillsOnSystem(st, agentSkillsPath, sharedSkillsPath) ==
  linkSharedSkillsOnSystemAt(ensureDir(st, sharedSkillsPath), agentSkillsPath,
                             sharedSkillsPath)

VSCode_isLinked(f, systemPath, repoPath) ==
  IF ~isSymlink(f, join(systemPath, "settings.json")) THEN FALSE
  ELSE getSymlinkTarget(f, join(systemPath, "settings.json"))
         = Abs(join(repoPath, "settings.json"))

VSCode_importOne(st, srcPath, destPath, pattern) ==
  IF ~exists(st.fs, srcPath) THEN st
  ELSE IF isSymlink(st.fs, srcPath) THEN st
  ELSE IF exists(st.fs, destPath) THEN st
  ELSE importEntry(st, srcPath, destPath, pattern)

RECURSIVE VSCode_importEntries(_, _, _, _, _)
VSCode_importEntries(st, systemPath, repoPath, patterns, i) ==
  IF st.err # "" \/ i > Len(patterns) THEN st
  ELSE VSCode_importEntries(
         VSCode_importOne(st, join(systemPath, patterns[i]),
                          join(repoPath, patterns[i]), patterns[i]),
         systemPath, repoPath, patterns, i + 1)

\* the end of import: nothing imported, or the skills path is linked
VSCode_imported(done, systemPath) ==
  IF done.err = "" /\ Len(done.ret) = 0
    THEN Res(done, TRUE, "nothing to import")
    ELSE Res(linkSharedSkillsOnSystem(done, join(systemPath, "skills"),
                                      getSharedSkillsPath),
             TRUE, "imported")

VSCode_import(st, systemPath, repoPath) ==
  IF ~exists(st.fs, systemPath) \/ ~isDirectory(st.fs, systemPath)
    THEN Res(st, FALSE, "not found on system")
  ELSE VSCode_imported(
         VSCode_importEntries(Return(ensureDir(st, repoPath), <<>>),
                              systemPath, repoPath, syncPatterns("vscode"), 1),
         systemPath)

\* a destination that is not yet the link to srcPath: a symlink is
\* unlinked, anything else is moved to destPath.backup
VSCode_clear(st, destPath, backupPath) ==
  IF isSymlink(st.fs, destPath) THEN unlinkSync(st, destPath)
  ELSE IF exists(st.fs, destPath)
    THEN renameSync(IF exists(st.fs, backupPath)
                      THEN IF isDirectory(st.fs, backupPath)
                             THEN removeDir(st, backupPath)
                             ELSE unlinkSync(st, backupPath)
                      ELSE st,
                    destPath, backupPath)
  ELSE st

VSCode_exportOne(st, srcPath, destPath, pattern) ==
  IF ~exists(st.fs, srcPath) THEN st
  ELSE IF isSymlink(st.fs, destPath) /\ getSymlinkTarget(st.fs, destPath) = Abs(srcPath)
    THEN st
  ELSE Return(symlinkSync(VSCode_clear(st, destPath, BackupPath(destPath)),
                          Abs(srcPath), destPath),
              Append(st.ret, pattern))

RECURSIVE VSCode_exportEntries(_, _, _, _, _)
VSCode_exportEntries(st, repoPath, systemPath, patterns, i) ==
  IF st.err # "" \/ i > Len(patterns) THEN st
  ELSE VSCode_exportEntries(
         VSCode_exportOne(st, join(repoPath, patterns[i]),
                          join(systemPath, patterns[i]), patterns[i]),
         repoPath, systemPath, patterns, i + 1)

VSCode_export(st, repoPath, systemPath) ==
  IF ~exists(st.fs, repoPath) \/ ~isDirectory(st.fs, repoPath)
    THEN Res(st, FALSE, "not found in repo")
  ELSE Res(VSCode_exportEntries(Return(ensureDir(st, systemPath), <<>>),
                                repoPath, systemPath, syncPatterns("vscode"), 1),
           TRUE, "linked")

-----------------------------------------------------------------------------
(* The batch commands: the per-agent loops of syncCommand (commands/push.ts) *)
(* and unsyncCommand (commands/unsync.ts)                                    *)

\* agents/shared-skills.ts
SHARED_SKILLS_AGENT_ID == "agents"

\* the agents of sharedSkillsAgents that have an adapter in this model
sharedSkillsAgents == {"claude", "cursor", "devin", "opencode", "vscode"}

usesSharedSkills(agentId) == agentId \in sharedSkillsAgents

Includes(agentIds, id) == \E k \in 1..Len(agentIds) : agentIds[k] = id

\* an ensureSharedSkillsAgent that does not look for the id in the list
ensureSharedSkillsAgentUnlooked(agentIds) ==
  IF ~\E k \in 1..Len(agentIds) : usesSharedSkills(agentIds[k]) THEN agentIds
  ELSE Append(agentIds, SHARED_SKILLS_AGENT_ID)

ensureSharedSkillsAgent(agentIds) ==
  IF ~\E k \in 1..Len(agentIds) : usesSharedSkills(agentIds[k]) THEN agentIds
  ELSE IF Includes(agentIds, SHARED_SKILLS_AGENT_ID) THEN agentIds
  ELSE Append(agentIds, SHARED_SKILLS_AGENT_ID)

\* the ids adapterRegistry.get(id) finds: registerBuiltinAdapters registers
\* neither "devin" nor "agents"
Registered == {builtinAdapters[k].id : k \in 1..Len(builtinAdapters)}

\* the adapter call of one turn of the loop
operation(op, id, st) ==
  CASE op = "import" -> import(id, st, getConfigPath(id), getRepoPath(id))
    [] op = "export" -> export(id, st, getRepoPath(id), getConfigPath(id))
    [] op = "unsync" -> unsyncAgent(id, st, getConfigPath(id), getRepoPath(id))

\* one turn: if (!adapter) { ...; failCount++; continue }
turn(op, id, st) ==
  IF id \notin Registered THEN Res(st, FALSE, "Adapter not found")
  ELSE operation(op, id, st)

\* which counter the turn raises; catch (error) counts a failure
outcome(r) ==
  IF r.st.err # "" THEN "failed"
  ELSE IF r.success THEN "succeeded"
  ELSE IF r.message \in {"copy strategy - skipped", "not linked - skipped"}
    THEN "skipped"
  ELSE "failed"

\* a loop that stops at the first failed turn
countedOrAborted(b, id, r) ==
  [b EXCEPT !.i = IF outcome(r) = "failed" THEN Len(b.agents) + 1 ELSE @ + 1,
            !.handled = Append(@, id),
            !.successCount = IF outcome(r) = "succeeded" THEN @ + 1 ELSE @,
            !.skipCount = IF outcome(r) = "skipped" THEN @ + 1 ELSE @,
            !.failCount = IF outcome(r) = "failed" THEN @ + 1 ELSE @,
            !.errors = IF b.op # "unsync" /\ outcome(r) = "failed"
                         THEN Append(@, id) ELSE @,
            !.log = Append(@, [agent |-> id, text |-> outcome(r),
                                 message |-> IF r.st.err # "" THEN "thrown"
                                             ELSE r.message])]

\* a loop that counts no turn whose adapter is missing
countedIfFound(b, id, r) ==
  [b EXCEPT !.i = @ + 1,
            !.handled = Append(@, id),
            !.successCount = IF outcome(r) = "succeeded" THEN @ + 1 ELSE @,
            !.skipCount = IF outcome(r) = "skipped" THEN @ + 1 ELSE @,
            !.failCount = IF outcome(r) = "failed" /\ r.message # "Adapter not found"
                            THEN @ + 1 ELSE @,
            !.errors = IF b.op # "unsync" /\ outcome(r) = "failed"
                         THEN Append(@, id) ELSE @,
            !.log = Append(@, [agent |-> id, text |-> outcome(r),
                                 message |-> IF r.st.err # "" THEN "thrown"
                                             ELSE r.message])]

\* the counters, the errors array (syncCommand only) and the spinner
\* messages after the turn; the loop goes on to the next id
counted(b, id, r) ==
  [b EXCEPT !.i = @ + 1,
            !.handled = Append(@, id),
            !.successCount = IF outcome(r) = "succeeded" THEN @ + 1 ELSE @,
            !.skipCount = IF outcome(r) = "skipped" THEN @ + 1 ELSE @,
            !.failCount = IF outcome(r) = "failed" THEN @ + 1 ELSE @,
            !.errors = IF b.op # "unsync" /\ outcome(r) = "failed"
                         THEN Append(@, id) ELSE @,
            !.log = Append(@, [agent |-> id, text |-> outcome(r),
                                 message |-> IF r.st.err # "" THEN "thrown"
                                             ELSE r.message])]

\* the ids a configuration may list: three registered adapters and one id
\* without an adapter
BatchIds == {"cursor", "claude", "trae", SHARED_SKILLS_AGENT_ID}

\* config.agents / selectedAgents: non-empty, no id twice
AgentLists ==
  {l \in UNION {[1..n -> BatchIds] : n \in 1..MaxAgents} :
     \A j, k \in 1..Len(l) : l[j] = l[k] => j = k}

\* the list the loop runs over
batchAgents(op, agentIds) ==
  IF op = "unsync" THEN ensureSharedSkillsAgent(agentIds) ELSE agentIds

\* the three tools' config roots and repo slots
BatchFs ==
  {Base
     @@ At(getConfigPath("cursor"), Leaf(Dir) @@ At(<<E1("cursor")>>, c))
     @@ At(getRepoPath("cursor"), DirWith(E1("cursor"), 1))
     @@ At(getConfigPath("claude"), k)
     @@ At(getRepoPath("claude"), DirWith(E1("claude"), 1))
     @@ At(getConfigPath("trae"), t)
     @@ At(getRepoPath("trae"), DirWith(E1("trae"), 1)) :
   c \in {Leaf(File(MaxData)), Leaf(Link(Abs(Elsewhere))),
          Leaf(Link(Abs(join(getRepoPath("cursor"), E1("cursor")))))},
   k \in {NoTree, DirWith(E1("claude"), MaxData)},
   t \in {NoTree, Leaf(Link(Abs(getRepoPath("trae"))))}}

InitBatch ==
  /\ tool = "batch"
  /\ adapters = builtinAdapters
  /\ fs \in BatchFs
  /\ last = Idle
  /\ \E op \in {"import", "export", "unsync"}, agentIds \in AgentLists :
       batch = [NoBatch EXCEPT !.op = op, !.configured = agentIds,
                               !.agents = batchAgents(op, agentIds)]

\* the turn for id ran and the loop variables were updated
Turned(id, left, r) ==
  /\ fs' = r.st.fs
  /\ last' = [op |-> batch.op, pre |-> fs, err |-> r.st.err,
              success |-> r.st.err = "" /\ r.success,
              message |-> IF r.st.err = "" THEN r.message ELSE "thrown",
              left |-> left, path |-> getConfigPath(id), ret |-> Null]
  /\ batch' = counted(batch, id, r)
  /\ UNCHANGED <<tool, adapters>>

\* one turn of the for loop; the adapter's calls meet an I/O error after
\* `left` of them, or none
BatchStep(left) ==
  /\ batch.op # "none" /\ ~batch.done /\ batch.i <= Len(batch.agents)
  /\ \E r \in {turn(batch.op, batch.agents[batch.i], Start(fs, left))} :
       Turned(batch.agents[batch.i], left, r)

\* s.stop(`... complete: ...`) after the loop
Summary ==
  /\ batch.op # "none" /\ ~batch.done /\ batch.i > Len(batch.agents)
  /\ batch' = [batch EXCEPT !.done = TRUE]
  /\ UNCHANGED <<fs, tool, last, adapters>>

NextBatch ==
  \/ \E left \in {NoFail, 0} : BatchStep(left)
  \/ Summary

SpecBatch == InitBatch /\ [][NextBatch]_vars

\* a turn is due: the loop has ids left
TurnDue == batch.op # "none" /\ ~batch.done /\ batch.i <= Len(batch.agents)

\* weak fairness of the turns, with ENABLED written out: a turn can be
\* taken exactly when one is due, since every adapter call returns or
\* throws and the turn then moves to the next position
TurnsProceed ==
  []<>(~TurnDue) \/ []<><<\E left \in {NoFail, 0} : BatchStep(left)>>_vars

\* the command runs to its end: the loop is a plain sequential loop that
\* nothing suspends, and the summary follows the last turn
SpecBatchLive == SpecBatch /\ TurnsProceed /\ WF_vars(Summary)

-----------------------------------------------------------------------------
(* Two shared-skills participants, Devin and VSCode, imported or exported  *)
(* one after the other                                                      *)

Participants == {"devin", "vscode"}

participantOperation(op, id, st) ==
  CASE op = "import" /\ id = "vscode" ->
         VSCode_import(st, getConfigPath(id), getRepoPath(id))
    [] op = "export" /\ id = "vscode" ->
         VSCode_export(st, getRepoPath(id), getConfigPath(id))
    [] OTHER -> operation(op, id, st)

\* a skills directory with one skill in it
SkillsDir(d) == DirWith("s.md", d)

SkillsFs ==
  {Base
     @@ At(getConfigPath("devin"), dv)
     @@ At(getRepoPath("devin"), Leaf(Dir) @@ At(<<SHARED_SKILLS_DIRNAME>>, rs))
     @@ At(getConfigPath("vscode"),
           DirWith("settings.json", MaxData) @@ At(<<"skills">>, vs))
     @@ At(getRepoPath("vscode"), rv)
     @@ At(join(HOME, ".agents"), sh) :
   dv \in {NoTree, Leaf(Dir) @@ At(<<"skills">>, SkillsDir(1)),
           Leaf(Link(Abs(getRepoPath("devin"))))},
   rs \in {NoTree, SkillsDir(1)},
   vs \in {NoTree, SkillsDir(MaxData), Leaf(Link(Abs(getSharedSkillsPath)))},
   rv \in {NoTree, DirWith("settings.json", 1)},
   sh \in {NoTree, Leaf(Dir) @@ At(<<SHARED_SKILLS_DIRNAME>>, SkillsDir(1))}}

InitSkills ==
  /\ tool = "skills"
  /\ adapters = builtinAdapters
  /\ fs \in SkillsFs
  /\ last = Idle
  /\ \E op \in {"import", "export"},
        agentIds \in {<<"devin", "vscode">>, <<"vscode", "devin">>} :
       batch = [NoBatch EXCEPT !.op = op, !.configured = agentIds, !.agents = agentIds]

\* one participant's turn
SkillsStep ==
  /\ batch.op # "none" /\ ~batch.done /\ batch.i <= Len(batch.agents)
  /\ \E r \in {participantOperation(batch.op, batch.agents[batch.i], Start(fs, NoFail))} :
       Turned(batch.agents[batch.i], NoFail, r)

NextSkills ==
  \/ SkillsStep
  \/ Summary

SpecSkills == InitSkills /\ [][NextSkills]_vars

-----------------------------------------------------------------------------
(* utils/update-check: parseVersion and isOutdated.  A string is the      *)
(* sequence of its characters.                                              *)

DigitChars == <<"0", "1", "2", "3", "4", "5", "6", "7", "8", "9">>

IsDigit(c) == \E k \in 1..Len(DigitChars) : DigitChars[k] = c

\* the digit's value
DigitValue(c) == (CHOOSE k \in 1..Len(DigitChars) : DigitChars[k] = c) - 1

WhiteSpace == {" ", "\n"}

\* String.prototype.trim
RECURSIVE trimStart(_)
trimStart(s) ==
  IF s # <<>> /\ Head(s) \in WhiteSpace THEN trimStart(Tail(s)) ELSE s

RECURSIVE trimEnd(_)
trimEnd(s) ==
  IF s # <<>> /\ s[Len(s)] \in WhiteSpace
    THEN trimEnd(SubSeq(s, 1, Len(s) - 1)) ELSE s

trim(s) == trimEnd(trimStart(s))

\* \d+ at the head of s: how many characters the group takes
RECURSIVE digitRun(_)
digitRun(s) ==
  IF s # <<>> /\ IsDigit(Head(s)) THEN 1 + digitRun(Tail(s)) ELSE 0

\* Number(text) for a text of digits
RECURSIVE Number(_)
Number(ds) ==
  IF ds = <<>> THEN 0
  ELSE 10 * Number(SubSeq(ds, 1, Len(ds) - 1)) + DigitValue(ds[Len(ds)])

\* null, as a result of parseVersion
NoVersion == <<>>

\* the regular expression from its n-th group on: (\d+) then "\." before
\* the next group, "$" after the third; parts holds the groups matched
RECURSIVE matchGroups(_, _, _)
matchGroups(s, n, parts) ==
  IF digitRun(s) = 0 THEN NoVersion
  ELSE IF n = 3
    THEN IF digitRun(s) = Len(s)
           THEN Append(parts, Number(s)) ELSE NoVersion
  ELSE IF digitRun(s) < Len(s) /\ s[digitRun(s) + 1] = "."
    THEN matchGroups(SubSeq(s, digitRun(s) + 2, Len(s)), n + 1,
                     Append(parts, Number(SubSeq(s, 1, digitRun(s)))))
  ELSE NoVersion

parseVersion(version) == matchGroups(trim(version), 1, <<>>)

\* a comparison that also reports equal versions as outdated
RECURSIVE newerOrSame(_, _, _)
newerOrSame(currentParts, latestParts, i) ==
  IF i > 3 THEN TRUE
  ELSE IF latestParts[i] > currentParts[i] THEN TRUE
  ELSE IF latestParts[i] < currentParts[i] THEN FALSE
  ELSE newerOrSame(currentParts, latestParts, i + 1)

\* the for loop of isOutdated, from index i on
RECURSIVE newer(_, _, _)
newer(currentParts, latestParts, i) ==
  IF i > 3 THEN FALSE
  ELSE IF latestParts[i] > currentParts[i] THEN TRUE
  ELSE IF latestParts[i] < currentParts[i] THEN FALSE
  ELSE newer(currentParts, latestParts, i + 1)

compareParts(currentParts, latestParts) ==
  IF currentParts = NoVersion \/ latestParts = NoVersion THEN FALSE
  ELSE newer(currentParts, latestParts, 1)

isOutdated(current, latest) ==
  compareParts(parseVersion(current), parseVersion(latest))

\* the components a version string is built of: 0 .. MaxPart, 10 and 01
PartTexts ==
  {<<DigitChars[n + 1]>> : n \in 0..MaxPart} \cup {<<"1", "0">>, <<"0", "1">>}

Dotted(a, b, c) == a \o <<".">> \o b \o <<".">> \o c

\* strings parseVersion is given: versions, versions in white space, and
\* strings that are no MAJOR.MINOR.PATCH
VersionTexts ==
  {Dotted(a, b, c) : a, b, c \in PartTexts}
  \cup {<<" ">> \o Dotted(<<"1">>, <<"0">>, c) \o <<"\n">> : c \in PartTexts}
  \cup {<<>>, <<"x">>, <<"1">>, <<"1", ".", "2">>, <<"1", ".", "2", ".">>,
        <<"1", ".", ".", "3">>, <<".", "1", ".", "2">>,
        Dotted(<<"1">>, <<"2">>, <<"3">>) \o <<".", "4">>,
        <<"v">> \o Dotted(<<"1">>, <<"2">>, <<"3">>),
        Dotted(<<"1">>, <<"2">>, <<"3">>) \o <<"-", "b">>,
        Dotted(<<"1">>, <<" ", "2">>, <<"3">>),
        Dotted(<<"-", "1">>, <<"2">>, <<"3">>)}

InitVersion ==
  /\ tool = "update-check"
  /\ fs = NoTree
  /\ batch = NoBatch
  /\ adapters = builtinAdapters
  /\ \E current \in VersionTexts, latest \in VersionTexts :
       last = [op |-> "input", current |-> current, latest |-> latest,
               parsed |-> NoVersion, outdated |-> FALSE]

\* parseVersion(current) is called
ParseVersion ==
  /\ last.op = "input"
  /\ last' = [last EXCEPT !.op = "parseVersion",
                          !.parsed = parseVersion(last.current)]
  /\ UNCHANGED <<fs, tool, batch, adapters>>

\* isOutdated(current, latest) is called
IsOutdated ==
  /\ last.op = "input"
  /\ last' = [last EXCEPT !.op = "isOutdated",
                          !.outdated = isOutdated(last.current, last.latest)]
  /\ UNCHANGED <<fs, tool, batch, adapters>>

NextVersion ==
  \/ ParseVersion
  \/ IsOutdated

SpecVersion == InitVersion /\ [][NextVersion]_vars

-----------------------------------------------------------------------------
(* adapters/clawdbot.ts: a tool with two candidate config roots           *)

\* configPaths: ~/.clawd, the primary candidate, and ~/.clawdbot
Clawdbot_configPaths == <<join(HOME, "clawd"), join(HOME, "clawdbot")>>

\* this.configPaths.filter((p) => existsSync(p))
RECURSIVE existingOf(_, _, _)
existingOf(f, paths, i) ==
  IF i > Len(paths) THEN <<>>
  ELSE IF exists(f, paths[i]) THEN <<paths[i]>> \o existingOf(f, paths, i + 1)
  ELSE existingOf(f, paths, i + 1)

Clawdbot_getConfigPath(f) ==
  IF existingOf(f, Clawdbot_configPaths, 1) # <<>>
    THEN existingOf(f, Clawdbot_configPaths, 1)[1]
    ELSE Clawdbot_configPaths[1]

Clawdbot_isLinked(f, systemPath, repoPath) ==
  IF ~exists(f, systemPath) \/ ~exists(f, repoPath) \/ ~isSymlink(f, systemPath)
    THEN FALSE
    ELSE getSymlinkTarget(f, systemPath) = Abs(repoPath)

Clawdbot_import(st, systemPath, repoPath) ==
  IF ~exists(st.fs, systemPath) THEN Res(st, FALSE, "not found on system")
  ELSE IF isSymlink(st.fs, systemPath) THEN Res(st, TRUE, "already linked")
  ELSE IF exists(st.fs, repoPath) THEN Res(st, TRUE, "already in repo")
  ELSE Res(copyDir(ensureDir(st, repoPath), systemPath, repoPath), TRUE, "imported")

\* performExport: the old backup removed, the config renamed to its backup
Clawdbot_moveAway(st, systemPath) ==
  IF exists(st.fs, systemPath) /\ ~isSymlink(st.fs, systemPath)
    THEN renameSync(IF exists(st.fs, BackupPath(systemPath))
                      THEN removeDir(st, BackupPath(systemPath)) ELSE st,
                    systemPath, BackupPath(systemPath))
    ELSE st

Clawdbot_performExport(st, repoPath, systemPath) ==
  IF isSymlink(st.fs, systemPath) /\ getSymlinkTarget(st.fs, systemPath) = Abs(repoPath)
    THEN Res(st, TRUE, "already linked")
    ELSE Res(createSymlink(Clawdbot_moveAway(st, systemPath), Abs(repoPath), systemPath),
             TRUE, "linked")

\* an export that takes the first existing candidate when there are two
Clawdbot_exportGuessing(st, repoPath, systemPath) ==
  IF ~exists(st.fs, repoPath) THEN Res(st, FALSE, "not found in repo")
  ELSE Clawdbot_performExport(st, repoPath, Clawdbot_getConfigPath(st.fs))

Clawdbot_export(st, repoPath, systemPath) ==
  IF ~exists(st.fs, repoPath) THEN Res(st, FALSE, "not found in repo")
  ELSE IF Len(existingOf(st.fs, Clawdbot_configPaths, 1)) > 1
    THEN Res(st, FALSE, "Multiple config paths exist")
  ELSE Clawdbot_performExport(st, repoPath, Clawdbot_getConfigPath(st.fs))

\* what a candidate root can be: absent, a directory, a link to the repo
\* path, a link to another place, a link to nothing
ClawdbotRoots ==
  {NoTree, DirWith("c.json", MaxData), Leaf(Link(Abs(getRepoPath("clawdbot")))),
   Leaf(Link(Abs(Elsewhere))), Leaf(Link(Abs(join(HOME, "gone"))))}

ClawdbotFs ==
  {Base @@ At(Clawdbot_configPaths[1], a) @@ At(Clawdbot_configPaths[2], b)
     @@ At(getRepoPath("clawdbot"), r) @@ At(BackupPath(Clawdbot_configPaths[1]), k) :
   a \in ClawdbotRoots, b \in ClawdbotRoots,
   r \in {NoTree, DirWith("c.json", 1)},
   k \in {NoTree, DirWith("old.json", 1)}}

InitClawdbot ==
  /\ tool = "clawdbot"
  /\ fs \in ClawdbotFs
  /\ last = Idle
  /\ batch = NoBatch
  /\ adapters = builtinAdapters

\* adapter.getConfigPath(platform)
ClawdbotConfigPath ==
  Called("getConfigPath", Null, Return(Start(fs, NoFail), Clawdbot_getConfigPath(fs)))

\* the adapter's import or export returned r, or threw
ClawdbotRan(op, systemPath, r) ==
  /\ fs' = r.st.fs
  /\ last' = [op |-> op, pre |-> fs, err |-> r.st.err,
              success |-> r.st.err = "" /\ r.success,
              message |-> IF r.st.err = "" THEN r.message ELSE "thrown",
              left |-> NoFail, path |-> systemPath, ret |-> Null]
  /\ UNCHANGED <<tool, batch, adapters>>

\* the commands call the adapter with systemPath = getConfigPath(platform)
ClawdbotExport ==
  ClawdbotRan("export", Clawdbot_getConfigPath(fs),
              Clawdbot_export(Start(fs, NoFail), getRepoPath("clawdbot"),
                              Clawdbot_getConfigPath(fs)))

ClawdbotImport ==
  ClawdbotRan("import", Clawdbot_getConfigPath(fs),
              Clawdbot_import(Start(fs, NoFail), Clawdbot_getConfigPath(fs),
                              getRepoPath("clawdbot")))

NextClawdbot ==
  \/ ClawdbotConfigPath
  \/ ClawdbotExport
  \/ ClawdbotImport

SpecClawdbot == InitClawdbot /\ [][NextClawdbot]_vars

-----------------------------------------------------------------------------
(* The two shared-skills links on their own: linkSharedSkillsOnSystem    *)
(* for a tool's skills path, linkSharedSkillsInRepo for a tool's repo     *)
(* directory                                                               *)

\* the arguments of the two calls
ToolSkillsPath == join(getConfigPath("vscode"), SHARED_SKILLS_DIRNAME)
AgentRepoPath == getRepoPath("devin")
RepoSkillsLink == join(AgentRepoPath, SHARED_SKILLS_DIRNAME)

\* what can be at a place where a skills link is made
SkillsSlots(right) ==
  {NoTree, SkillsDir(MaxData), Leaf(File(MaxData)), Leaf(Link(right)),
   Leaf(Link(Abs(Elsewhere))), Leaf(Link(Abs(join(HOME, "gone"))))}

\* a backup left by an earlier call
SkillsBackups == {NoTree, SkillsDir(1), Leaf(File(1))}

\* .agents with the shared directory: not made yet, empty, or holding a
\* skill
SharedDirs ==
  {NoTree, Leaf(Dir)}
  \cup {Leaf(Dir) @@ At(<<SHARED_SKILLS_DIRNAME>>, d) : d \in {Leaf(Dir), SkillsDir(1)}}

LinkFs ==
  {Base
     @@ At(getConfigPath("vscode"), Leaf(Dir))
     @@ At(ToolSkillsPath, t) @@ At(BackupPath(ToolSkillsPath), tb)
     @@ At(dirname(getSharedSkillsPath), s)
     @@ At(AgentRepoPath, Leaf(Dir))
     @@ At(RepoSkillsLink, r) @@ At(BackupPath(RepoSkillsLink), rb)
     @@ At(dirname(getSharedSkillsRepoPath(AgentRepoPath)), rs) :
   t \in SkillsSlots(Abs(getSharedSkillsPath)), tb \in SkillsBackups, s \in SharedDirs,
   r \in SkillsSlots(Rel(relative(AgentRepoPath, getSharedSkillsRepoPath(AgentRepoPath))))
         \cup {Leaf(Link(Abs(getSharedSkillsRepoPath(AgentRepoPath))))},
   rb \in {NoTree, SkillsDir(1)}, rs \in SharedDirs}

InitLink ==
  /\ tool = "skills-link"
  /\ fs \in LinkFs
  /\ last = Idle
  /\ batch = NoBatch
  /\ adapters = builtinAdapters

LinkOnSystem ==
  Called("linkSharedSkillsOnSystem", ToolSkillsPath,
         linkSharedSkillsOnSystem(Start(fs, NoFail), ToolSkillsPath, getSharedSkillsPath))

LinkInRepo ==
  Called("linkSharedSkillsInRepo", RepoSkillsLink,
         linkSharedSkillsInRepo(Start(fs, NoFail), AgentRepoPath,
                                getSharedSkillsRepoPath(AgentRepoPath)))

NextLink ==
  \/ LinkOnSystem
  \/ LinkInRepo

SpecLink == InitLink /\ [][NextLink]_vars

-----------------------------------------------------------------------------
(* The repository root of the commands: config.repoPath expanded by       *)
(* syncCommand on its own and by expandHome in status and unsync.  A      *)
(* string is the sequence of its characters.                               *)

startsWith(s, prefix) == Len(s) >= Len(prefix) /\ SubSeq(s, 1, Len(prefix)) = prefix

\* String.prototype.slice(n)
slice(s, n) == SubSeq(s, n + 1, Len(s))

\* String.prototype.replace(c, by): the first c of s replaced
RECURSIVE replace(_, _, _)
replace(s, c, by) ==
  IF s = <<>> THEN <<>>
  ELSE IF Head(s) = c THEN by \o Tail(s)
  ELSE <<Head(s)>> \o replace(Tail(s), c, by)

\* s.split("/"), cur being the segment read so far
RECURSIVE split(_, _)
split(s, cur) ==
  IF s = <<>> THEN <<cur>>
  ELSE IF Head(s) = "/" THEN <<cur>> \o split(Tail(s), <<>>)
  ELSE split(Tail(s), Append(cur, Head(s)))

\* segments.join("/")
RECURSIVE joined(_)
joined(segments) ==
  IF segments = <<>> THEN <<>>
  ELSE IF Len(segments) = 1 THEN segments[1]
  ELSE segments[1] \o <<"/">> \o joined(Tail(segments))

\* node:path normalizeString: empty segments and "." dropped, ".." taking
\* back the segment before it, kept at the head of a relative path
RECURSIVE normalizeString(_, _, _)
normalizeString(segments, isAbsolute, res) ==
  IF segments = <<>> THEN res
  ELSE IF Head(segments) \in {<<>>, <<".">>}
    THEN normalizeString(Tail(segments), isAbsolute, res)
  ELSE IF Head(segments) # <<".", ".">>
    THEN normalizeString(Tail(segments), isAbsolute, Append(res, Head(segments)))
  ELSE IF res # <<>> /\ res[Len(res)] # <<".", ".">>
    THEN normalizeString(Tail(segments), isAbsolute, SubSeq(res, 1, Len(res) - 1))
  ELSE IF isAbsolute THEN normalizeString(Tail(segments), isAbsolute, res)
  ELSE normalizeString(Tail(segments), isAbsolute, Append(res, <<".", ".">>))

normalized(isAbsolute, trailingSeparator, body) ==
  IF body = <<>>
    THEN IF isAbsolute THEN <<"/">>
         ELSE IF trailingSeparator THEN <<".", "/">> ELSE <<".">>
    ELSE (IF isAbsolute THEN <<"/">> ELSE <<>>) \o body
         \o (IF trailingSeparator THEN <<"/">> ELSE <<>>)

\* node:path normalize
normalize(path) ==
  IF path = <<>> THEN <<".">>
  ELSE normalized(Head(path) = "/", path[Len(path)] = "/",
                  joined(normalizeString(split(path, <<>>), Head(path) = "/", <<>>)))

\* the non-empty arguments of join, with "/" between them
RECURSIVE joinedArgs(_)
joinedArgs(args) ==
  IF args = <<>> THEN <<>>
  ELSE IF Head(args) = <<>> THEN joinedArgs(Tail(args))
  ELSE IF joinedArgs(Tail(args)) = <<>> THEN Head(args)
  ELSE Head(args) \o <<"/">> \o joinedArgs(Tail(args))

\* node:path join(...args)
pathJoin(args) == normalize(joinedArgs(args))

\* os.homedir()
HomeDir == <<"/", "h">>

\* process.env.HOME: the home directory, or not set
EnvHomes == {HomeDir, <<>>}

\* syncCommand: config.repoPath.startsWith("~") ? replace("~", HOME) : it
syncRepoRoot(repoPath, envHome) ==
  IF startsWith(repoPath, <<"~">>) THEN replace(repoPath, "~", envHome) ELSE repoPath

\* utils/paths expandHome
expandHome(path) ==
  IF startsWith(path, <<"~", "/">>) THEN pathJoin(<<HomeDir, slice(path, 2)>>) ELSE path

\* adapter.getRepoPath(repoRoot) for the adapter "trae"
Adapter_getRepoPath(repoRoot) ==
  pathJoin(<<repoRoot, <<"c", "o", "n", "f", "i", "g", "s">>, <<"t", "r", "a", "e">>>>)

\* the tool's repo path as each command computes it
syncAgentRepoPath(repoPath, envHome) == Adapter_getRepoPath(syncRepoRoot(repoPath, envHome))
statusAgentRepoPath(repoPath) == Adapter_getRepoPath(expandHome(repoPath))
unsyncAgentRepoPath(repoPath) == Adapter_getRepoPath(expandHome(repoPath))

\* the strings a configuration can hold as repoPath
PathChars == {"~", "/", "r", "."}
RepoPathTexts == UNION {[1..n -> PathChars] : n \in 1..MaxPathLen}

\* not computed yet
NoPath == <<"?">>

InitRepoPath ==
  /\ tool = "repoPath"
  /\ fs = NoTree
  /\ batch = NoBatch
  /\ adapters = builtinAdapters
  /\ \E repoPath \in RepoPathTexts, envHome \in EnvHomes :
       last = [op |-> "config", repoPath |-> repoPath, envHome |-> envHome,
               sync |-> NoPath, status |-> NoPath, unsync |-> NoPath]

SyncCommand ==
  /\ tool = "repoPath" /\ last.sync = NoPath
  /\ last' = [last EXCEPT !.op = "sync",
                          !.sync = syncAgentRepoPath(last.repoPath, last.envHome)]
  /\ UNCHANGED <<fs, tool, batch, adapters>>

StatusCommand ==
  /\ tool = "repoPath" /\ last.status = NoPath
  /\ last' = [last EXCEPT !.op = "status", !.status = statusAgentRepoPath(last.repoPath)]
  /\ UNCHANGED <<fs, tool, batch, adapters>>

UnsyncCommand ==
  /\ tool = "repoPath" /\ last.unsync = NoPath
  /\ last' = [last EXCEPT !.op = "unsync", !.unsync = unsyncAgentRepoPath(last.repoPath)]
  /\ UNCHANGED <<fs, tool, batch, adapters>>

NextRepoPath ==
  \/ SyncCommand
  \/ StatusCommand
  \/ UnsyncCommand

SpecRepoPath == InitRepoPath /\ [][NextRepoPath]_vars

-----------------------------------------------------------------------------
(* adapters/registry.ts: AdapterRegistry.  The Map is the sequence of its *)
(* entries in insertion order, each with its key.                          *)

\* the position of the entry with key id, 0 when there is none
indexOf(map, id) ==
  IF \E k \in 1..Len(map) : map[k].id = id
    THEN CHOOSE k \in 1..Len(map) : map[k].id = id
    ELSE 0

\* Map.prototype.set: the value of an existing key replaced where it is,
\* a new key added at the end
mapSet(map, id, entry) ==
  IF indexOf(map, id) = 0 THEN Append(map, entry)
  ELSE [map EXCEPT ![indexOf(map, id)] = entry]

\* Map.prototype.delete
mapDelete(map, id) ==
  IF indexOf(map, id) = 0 THEN map
  ELSE SubSeq(map, 1, indexOf(map, id) - 1) \o SubSeq(map, indexOf(map, id) + 1, Len(map))

\* a register that adds an entry whether or not the id has one
registerAppending(map, adapter, enabled) ==
  Append(map, [id |-> adapter.id, adapter |-> adapter, enabled |-> enabled])

register(map, adapter, enabled) ==
  mapSet(map, adapter.id, [id |-> adapter.id, adapter |-> adapter, enabled |-> enabled])

NoAdapter == [id |-> "?null", object |-> 0]

get(map, id) == IF indexOf(map, id) = 0 THEN NoAdapter ELSE map[indexOf(map, id)].adapter

getAll(map) == [k \in 1..Len(map) |-> map[k].adapter]

RECURSIVE getEnabled(_)
getEnabled(map) ==
  IF map = <<>> THEN <<>>
  ELSE IF Head(map).enabled THEN <<Head(map).adapter>> \o getEnabled(Tail(map))
  ELSE getEnabled(Tail(map))

has(map, id) == \E k \in 1..Len(map) : map[k].id = id

enable(map, id) ==
  IF indexOf(map, id) = 0 THEN map ELSE [map EXCEPT ![indexOf(map, id)].enabled = TRUE]

disable(map, id) ==
  IF indexOf(map, id) = 0 THEN map ELSE [map EXCEPT ![indexOf(map, id)].enabled = FALSE]

\* unregister(id)
unregister(map, id) == mapDelete(map, id)

\* the ids and adapter objects the registry is used with
RegistryIds == {"claude", "cursor", "trae"}
AdapterObjects == [id : RegistryIds, object : 1..MaxObjects]

InitRegistry ==
  /\ tool = "registry"
  /\ fs = NoTree
  /\ batch = NoBatch
  /\ adapters = <<>>
  /\ last = [op |-> "new", id |-> "", ret |-> FALSE, pre |-> <<>>]

\* a method of the registry was called and returned ret
Registry(op, id, ret, map) ==
  /\ tool = "registry"
  /\ adapters' = map
  /\ last' = [op |-> op, id |-> id, ret |-> ret, pre |-> adapters]
  /\ UNCHANGED <<fs, tool, batch>>

Register ==
  \E adapter \in AdapterObjects, enabled \in BOOLEAN :
    Registry("register", adapter.id, TRUE, register(adapters, adapter, enabled))

Enable == \E id \in RegistryIds : Registry("enable", id, has(adapters, id), enable(adapters, id))

Disable == \E id \in RegistryIds : Registry("disable", id, has(adapters, id), disable(adapters, id))

Unregister ==
  \E id \in RegistryIds : Registry("unregister", id, has(adapters, id), unregister(adapters, id))

Clear == Registry("clear", "", TRUE, <<>>)

NextRegistry ==
  \/ Register
  \/ Enable
  \/ Disable
  \/ Unregister
  \/ Clear

SpecRegistry == InitRegistry /\ [][NextRegistry]_vars

-----------------------------------------------------------------------------
(* agents/shared-skills.ts: ensureSharedSkillsAgent on its own, applied to *)
(* every list of up to MaxAgents ids, repeated ids among them.             *)

RECURSIVE ListsUpTo(_, _)
ListsUpTo(ids, n) ==
  IF n = 0 THEN {<<>>}
  ELSE ListsUpTo(ids, n - 1) \cup {Append(l, id) : l \in ListsUpTo(ids, n - 1), id \in ids}

InitEnsure ==
  /\ tool = "ensure"
  /\ fs = NoTree
  /\ batch = NoBatch
  /\ adapters = builtinAdapters
  /\ \E agentIds \in ListsUpTo(BatchIds, MaxAgents) :
       last = [op |-> "config", agentIds |-> agentIds, ret |-> <<>>]

EnsureSharedSkillsAgent ==
  /\ tool = "ensure"
  /\ last.op = "config"
  /\ last' = [op |-> "ensureSharedSkillsAgent", agentIds |-> last.agentIds,
              ret |-> ensureSharedSkillsAgent(last.agentIds)]
  /\ UNCHANGED <<fs, tool, batch, adapters>>

NextEnsure == EnsureSharedSkillsAgent

SpecEnsure == InitEnsure /\ [][NextEnsure]_vars

-----------------------------------------------------------------------------
(* What the claims speak of *)

SymlinkTools == {t \in Tools : exportStrategy(t) = "symlink"}

\* the destinations of an export, relative to the config root: the root
\* itself, or each scoped entry
Entries(t) == IF t \in PerEntry THEN {<<E1(t)>>, <<E2(t)>>} ELSE {<<>>}

SystemPath(e) == getConfigPath(tool) \o e
RepoPath(e) == getRepoPath(tool) \o e

TreeAt(f, q) == IF q.ok THEN Tree(f, q.path) ELSE NoTree
\* what is stored at path p, the node at p itself not followed
Content(f, p) == TreeAt(f, Phys(f, p))

RealContent(f, p) == exists(f, p) /\ ~isSymlink(f, p)

-----------------------------------------------------------------------------
(* C1 *)

SameAgain(r) == r.st.err = "" /\ r.success /\ r.st.fs = fs

\* C1: for every adapter, once an export has succeeded, exporting again
\* with nothing changed in between succeeds and leaves the whole
\* filesystem, backups included, exactly as the first export left it.
C1_ExportTwice ==
  (last.op = "export" /\ last.success) =>
    SameAgain(export(tool, Start(fs, NoFail), getRepoPath(tool), getConfigPath(tool)))

\* a first export that backed up the scoped file entry and linked it
C1_Witness ==
  /\ last.op = "export" /\ last.success /\ tool \in PerEntry
  /\ RealContent(last.pre, SystemPath(<<E1(tool)>>))
  /\ isSymlink(fs, SystemPath(<<E1(tool)>>))
  /\ exists(fs, BackupPath(SystemPath(<<E1(tool)>>)))

-----------------------------------------------------------------------------
(* C2 *)

BackedUpAndLinked(e) ==
  /\ exists(fs, BackupPath(SystemPath(e)))
  /\ Content(fs, BackupPath(SystemPath(e))) = Content(last.pre, SystemPath(e))
  /\ isSymlink(fs, SystemPath(e))
  /\ getSymlinkTarget(fs, SystemPath(e)) = Abs(RepoPath(e))

\* C2 as stated: after a successful export of a symlink-export adapter,
\* every destination that held real content before has that content at
\* <destination>.backup and is a symlink to its repository path.
C2_BackupOfEveryDestination ==
  (tool \in SymlinkTools /\ last.op = "export" /\ last.success) =>
    \A e \in Entries(tool) :
      RealContent(last.pre, SystemPath(e)) => BackedUpAndLinked(e)

\* C2, amended: the same for the config root of a root-level adapter and
\* for each scoped entry of a per-entry adapter that exists in the
\* repository; a scoped entry the repository lacks is left alone.
C2_BackupOfExportedDestination ==
  (tool \in SymlinkTools /\ last.op = "export" /\ last.success) =>
    \A e \in Entries(tool) :
      (RealContent(last.pre, SystemPath(e))
       /\ (tool \in PerEntry => exists(last.pre, RepoPath(e))))
        => BackedUpAndLinked(e)

\* a per-entry export that replaced an older backup of the file entry
C2_Witness ==
  /\ tool \in PerEntry /\ last.op = "export" /\ last.success
  /\ RealContent(last.pre, SystemPath(<<E1(tool)>>))
  /\ exists(last.pre, RepoPath(<<E1(tool)>>))
  /\ exists(last.pre, BackupPath(SystemPath(<<E1(tool)>>)))
  /\ ReadFile(last.pre, BackupPath(SystemPath(<<E1(tool)>>)))
       # ReadFile(fs, BackupPath(SystemPath(<<E1(tool)>>)))

-----------------------------------------------------------------------------
(* C3 *)

RepoSame(r) == Content(r.st.fs, getRepoPath(tool)) = Content(fs, getRepoPath(tool))

\* C3 as stated: an import changes no repository entry that existed before
\* it, and a second import at once leaves the repository as the first
\* left it.
C3_ImportKeepsRepo ==
  last.op = "import" =>
    /\ \A e \in {<<E1(tool)>>, <<E2(tool)>>} :
         exists(last.pre, RepoPath(e)) =>
           Content(fs, RepoPath(e)) = Content(last.pre, RepoPath(e))
    /\ RepoSame(import(tool, Start(fs, NoFail), getConfigPath(tool), getRepoPath(tool)))

-----------------------------------------------------------------------------
(* C4 *)

ExactLink(f, e) ==
  isSymlink(f, SystemPath(e)) /\ getSymlinkTarget(f, SystemPath(e)) = Abs(RepoPath(e))

\* C4 as stated: for a symlink-export adapter that links its config root,
\* in every state isLinked is true, and status reports "linked", exactly
\* when the system path is a symlink whose target is the repo path.
C4_LinkedIffExactTarget ==
  tool \in SymlinkTools \ PerEntry =>
    /\ isLinked(tool, fs, getConfigPath(tool), getRepoPath(tool)) <=> ExactLink(fs, <<>>)
    /\ statusText(tool, fs) = "linked" <=> ExactLink(fs, <<>>)

-----------------------------------------------------------------------------
(* C5 *)

BothExist(f) == exists(f, getConfigPath(tool)) /\ exists(f, getRepoPath(tool))

Claude_linked(f) == isLinked("claude", f, getConfigPath("claude"), getRepoPath("claude"))

\* C5: for the Claude adapter isLinked is true, and status reports
\* "linked", exactly when the system path and the repo path both exist;
\* and a step that only changes the content of a file on either side
\* leaves isLinked as it was.
C5_ClaudeLinkedByExistence ==
  /\ [](tool = "claude" =>
          /\ Claude_linked(fs) <=> BothExist(fs)
          /\ statusText(tool, fs) = "linked" <=> BothExist(fs))
  /\ [][(tool = "claude" /\ last'.op = "edit") => Claude_linked(fs') = Claude_linked(fs)]_vars

\* the two sides are linked and an edit has made their settings differ
C5_Witness ==
  /\ tool = "claude" /\ last.op = "edit" /\ Claude_linked(fs)
  /\ ReadFile(fs, SystemPath(<<"settings.json">>)) # 0
  /\ ReadFile(fs, RepoPath(<<"settings.json">>)) # 0
  /\ ReadFile(fs, SystemPath(<<"settings.json">>)) # ReadFile(fs, RepoPath(<<"settings.json">>))

-----------------------------------------------------------------------------
(* C6 *)

\* C6 as stated: after a successful export of a symlink-export adapter the
\* system path is a symlink to the repo path (per-entry adapters: every
\* scoped entry present in the repo is a symlink to its repo entry) and
\* isLinked returns true.
C6_ExportLinks ==
  (tool \in SymlinkTools /\ last.op = "export" /\ last.success) =>
    /\ \A e \in Entries(tool) :
         (tool \in PerEntry => exists(last.pre, RepoPath(e))) => ExactLink(fs, e)
    /\ isLinked(tool, fs, getConfigPath(tool), getRepoPath(tool))

-----------------------------------------------------------------------------
(* C7 *)

\* the destinations an export may write: the config root, or each scoped
\* entry for the adapters that work entry by entry
Destinations(t) ==
  IF t \in PerEntry \cup {"claude"} THEN {<<E1(t)>>, <<E2(t)>>} ELSE {<<>>}

KeptSomewhere(e) ==
  \/ Content(fs, SystemPath(e)) = Content(last.pre, SystemPath(e))
  \/ Content(fs, BackupPath(SystemPath(e))) = Content(last.pre, SystemPath(e))

\* C7: wherever an export stops, at its end or at an I/O error after any
\* number of its steps, the content a non-symlink destination held before
\* the export is at the destination or at <destination>.backup.
C7_NoLossDuringExport ==
  last.op = "export" =>
    \A e \in Destinations(tool) :
      RealContent(last.pre, SystemPath(e)) => KeptSomewhere(e)

\* an export stopped by an I/O error after the rename and before the
\* symlink: the destination is gone, its content is at the backup path
C7_Witness ==
  /\ last.op = "export" /\ last.err = "EIO"
  /\ \E e \in Destinations(tool) :
       /\ RealContent(last.pre, SystemPath(e))
       /\ Content(fs, SystemPath(e)) = NoTree
       /\ Content(fs, BackupPath(SystemPath(e))) = Content(last.pre, SystemPath(e))

-----------------------------------------------------------------------------
(* C8 *)

SkipNamed(rel) == \E i \in 1..Len(rel) : rel[i] \in SKIP_DIRECTORIES

\* C8: whatever the source tree holds, copyDir(src, dest) creates under
\* dest, at no depth, an entry that has a name of the skip set on its path.
C8_NothingSkippedIsCreated ==
  last.op = "copyDir" =>
    \A k \in DOMAIN fs \ DOMAIN last.pre :
      IsPrefix(DEST, k) => ~SkipNamed(Rest(DEST, k))

\* a copy of a source with .git at the top and node_modules one level down
C8_Witness ==
  /\ last.op = "copyDir" /\ last.success
  /\ join(SRC, ".git") \in DOMAIN last.pre
  /\ join(join(SRC, "sub"), "node_modules") \in DOMAIN last.pre
  /\ join(join(DEST, "sub"), "b.txt") \in DOMAIN fs \ DOMAIN last.pre

-----------------------------------------------------------------------------
(* C9 *)

\* the entries of the source tree of the given kinds, outside the skip set
SourceEntries(kinds) ==
  {k \in DOMAIN last.pre :
     /\ IsPrefix(SRC, k) /\ k # SRC
     /\ last.pre[k].kind \in kinds
     /\ ~SkipNamed(Rest(SRC, k))}

DestOf(k) == DEST \o Rest(SRC, k)

CopiedTo(k) ==
  /\ KindAt(fs, DestOf(k)) = "file"
  /\ fs[DestOf(k)].data = last.pre[k].data

\* copyFileSync of the entry fails with neither EACCES nor ENOENT: the
\* source file may be read and no file that may not be written is in
\* its place under dest
Copyable(k) ==
  /\ last.pre[k].readable
  /\ KindAt(last.pre, DestOf(k)) = "file" => last.pre[DestOf(k)].readable

NoSpecialCopied == \A k \in SourceEntries(SpecialKinds) : DestOf(k) \notin DOMAIN fs

\* C9 as stated: a copyDir that returns has copied every regular file of
\* the source tree outside the skip set to the same relative path under
\* dest, with the same content, and has made no entry for a special file.
C9_EveryFileCopied ==
  (last.op = "copyDir" /\ last.success) =>
    /\ \A k \in SourceEntries({"file"}) : CopiedTo(k)
    /\ NoSpecialCopied

\* C9, amended: the same for every regular file whose copy fails with
\* neither EACCES nor ENOENT; the other regular files are left out and
\* copyDir still returns.
C9_EveryCopyableFileCopied ==
  (last.op = "copyDir" /\ last.success) =>
    /\ \A k \in SourceEntries({"file"}) : Copyable(k) => CopiedTo(k)
    /\ NoSpecialCopied

\* a copy that made the nested directory, passed over a special file and
\* left out a file it could not read
C9_Witness ==
  /\ last.op = "copyDir" /\ last.success
  /\ SourceEntries(SpecialKinds) # {}
  /\ \E k \in SourceEntries({"file"}) : ~Copyable(k) /\ ~CopiedTo(k)
  /\ \E k \in SourceEntries({"file"}) :
       Len(k) > Len(SRC) + 1 /\ CopiedTo(k) /\ DestOf(k) \notin DOMAIN last.pre

-----------------------------------------------------------------------------
(* C10 *)

Untouched(path) ==
  \A k \in DOMAIN fs \cup DOMAIN last.pre :
    (~IsPrefix(path, k) /\ ~IsPrefix(BackupPath(path), k)) =>
      (k \in DOMAIN fs /\ k \in DOMAIN last.pre /\ fs[k] = last.pre[k])

-----------------------------------------------------------------------------
(* C11 *)

UnsyncSucceeded ==
  /\ last.op = "unsync" /\ last.success /\ tool \in SymlinkTools
  /\ isLinked(tool, last.pre, getConfigPath(tool), getRepoPath(tool))

\* the relative paths of the entries stored under the tool's repo path
RepoNames(f) ==
  {Rest(getRepoPath(tool), k) :
     k \in {k \in DOMAIN f : IsPrefix(getRepoPath(tool), k) /\ k # getRepoPath(tool)}}

\* the repo entry at rel is a file or a directory (a symlink to one
\* included) and the system side has, at rel, a file or directory of its
\* own, no symlink, of the same type and content
Materialized(f, rel) ==
  KindAt(f, Real(f, RepoPath(rel)).path) \in {"file", "dir"} =>
    /\ KindAt(f, SystemPath(rel)) = KindAt(f, Real(f, RepoPath(rel)).path)
    /\ ReadFile(f, SystemPath(rel)) = ReadFile(f, RepoPath(rel))

\* C11 as stated: after unsync succeeds for a linked symlink-export tool
\* the system path is a real directory, every file and directory under the
\* repo path has a real (non-symlink) counterpart with the same content at
\* the same relative path under the system path, the repository is
\* unchanged, and isLinked is false.
C11_UnsyncMaterializes ==
  UnsyncSucceeded =>
    /\ isDirectory(fs, getConfigPath(tool)) /\ ~isSymlink(fs, getConfigPath(tool))
    /\ \A rel \in RepoNames(fs) : Materialized(fs, rel)
    /\ Content(fs, getRepoPath(tool)) = Content(last.pre, getRepoPath(tool))
    /\ ~isLinked(tool, fs, getConfigPath(tool), getRepoPath(tool))

-----------------------------------------------------------------------------
(* C12 *)

\* the step is a turn of a batch loop, for the id at position batch.i
IsTurn == batch.op # "none" /\ batch'.handled # batch.handled

\* the turn found no adapter, or the adapter's operation threw
TurnBroke(l) == l.message = "Adapter not found" \/ l.err # ""

FailureCounted ==
  /\ batch'.failCount = batch.failCount + 1
  /\ batch'.successCount = batch.successCount
  /\ batch'.skipCount = batch.skipCount
  /\ batch'.log = Append(batch.log,
                         [agent |-> batch.agents[batch.i], text |-> "failed",
                          message |-> last'.message])
  /\ batch.op # "unsync" => batch'.errors = Append(batch.errors, batch.agents[batch.i])
  /\ batch'.i = batch.i + 1 /\ ~batch'.done

\* C12: in a batch import, export or unsync, a turn whose id has no
\* registered adapter, or whose adapter operation throws, raises the
\* failure count by one and is recorded, the loop goes on to the next
\* position, and the command reaches its summary only with every id of the
\* list handled, which it does after any such failure.
C12_FailureDoesNotStopBatch ==
  /\ [][(IsTurn /\ TurnBroke(last')) => FailureCounted]_vars
  /\ [](batch.done => batch.handled = batch.agents)
  /\ (batch.op # "none" /\ batch.failCount > 0)
       ~> (batch.done /\ batch.handled = batch.agents)

\* a finished batch of three or more ids whose first turn found no
\* adapter, whose second turn threw, and whose last turn succeeded
C12_Witness ==
  /\ batch.done /\ Len(batch.agents) >= 3
  /\ batch.log[1].message = "Adapter not found"
  /\ batch.log[2].message = "thrown"
  /\ batch.log[Len(batch.log)].text = "succeeded"
  /\ batch.failCount = 2

-----------------------------------------------------------------------------
(* C13 *)

CountSum == batch.successCount + batch.skipCount + batch.failCount

\* the ids handled so far are the first ids of the list, in its order
InListOrder ==
  /\ batch.i = Len(batch.handled) + 1
  /\ batch.handled = SubSeq(batch.agents, 1, Len(batch.handled))
  /\ CountSum = Len(batch.handled)

\* C13: every batch command (sync import, sync export, unsync) that
\* starts on its list reaches its summary; the ids are handled one by one
\* in list order, the configured ids first and in configured order; at the
\* summary every id of the list was handled exactly once and succeeded +
\* skipped + failed is the length of the list; import and export skip
\* nothing.
C13_BatchTerminates ==
  /\ (batch.op # "none") ~> batch.done
  /\ [](batch.op # "none" =>
          /\ InListOrder
          /\ SubSeq(batch.agents, 1, Len(batch.configured)) = batch.configured
          /\ batch.done => (batch.handled = batch.agents /\ CountSum = Len(batch.agents))
          /\ batch.op \in {"import", "export"} => batch.skipCount = 0)

\* the summary of an unsync that handled a success, a skip and a failure,
\* the last for the id ensureSharedSkillsAgent added to the list
C13_Witness ==
  /\ batch.done /\ batch.op = "unsync"
  /\ batch.successCount > 0 /\ batch.skipCount > 0 /\ batch.failCount > 0
  /\ Len(batch.agents) = Len(batch.configured) + 1
  /\ CountSum = Len(batch.agents)

-----------------------------------------------------------------------------
(* C14 *)

\* the skills subpath of tool t on the system
SkillsPath(t) == join(getConfigPath(t), "skills")

\* it is a symlink and names the shared system directory
SkillsShared(f, t) ==
  /\ isSymlink(f, SkillsPath(t))
  /\ exists(f, getSharedSkillsPath)
  /\ Real(f, SkillsPath(t)) = Real(f, getSharedSkillsPath)

BothExported ==
  /\ batch.op = "export" /\ batch.done
  /\ \A k \in 1..Len(batch.log) : batch.log[k].text = "succeeded"

\* C14 as stated: after two shared-skills participants were exported, each
\* tool's skills subpath on the system is a symlink resolving to the shared
\* system directory ~/.agents/skills, so both name one directory, and no
\* participant's skills entry is a real copy.
C14_SkillsLinkedToShared ==
  (tool = "skills" /\ BothExported) =>
    \A t \in Participants : SkillsShared(fs, t) /\ ~RealContent(fs, SkillsPath(t))

-----------------------------------------------------------------------------
(* C15 *)

ScopedEntries(t) == {<<E1(t)>>, <<E2(t)>>}

\* the export has left what was there as it was
NothingChanged ==
  \A k \in DOMAIN last.pre : k \in DOMAIN fs /\ fs[k] = last.pre[k]

NoBackupMade ==
  \A p \in {SystemPath(e) : e \in ScopedEntries(tool) \cup {<<>>}} :
    Content(fs, BackupPath(p)) = Content(last.pre, BackupPath(p))

\* what is new is the config root, or lies in a scoped entry the repo had
\* and the system lacked
OnlyMissingCreated ==
  \A k \in DOMAIN fs \ DOMAIN last.pre :
    \/ k = getConfigPath(tool)
    \/ \E e \in ScopedEntries(tool) :
         /\ IsPrefix(SystemPath(e), k)
         /\ exists(last.pre, RepoPath(e)) /\ ~exists(last.pre, SystemPath(e))

-----------------------------------------------------------------------------
(* C16 *)

NoSystemDir(f) ==
  ~exists(f, getConfigPath(tool)) \/ ~isDirectory(f, getConfigPath(tool))

\* C16 as stated: whenever the system path is absent or is not a
\* directory, import returns success = false with the "not found on
\* system" message and changes nothing on the filesystem; the repo
\* directory is not created.
C16_ImportNeedsSystemDir ==
  (last.op = "import" /\ NoSystemDir(last.pre)) =>
    /\ last.err = "" /\ ~last.success
    /\ last.message = "not found on system"
    /\ fs = last.pre

-----------------------------------------------------------------------------
(* C17 *)

NoRepoDir(f) ==
  ~exists(f, getRepoPath(tool)) \/ ~isDirectory(f, getRepoPath(tool))

\* C17 as stated: whenever the repo path is absent or is not a directory,
\* export returns success = false and changes nothing on the filesystem:
\* no backup is made, no symlink is created, the system path is as it was.
C17_ExportNeedsRepoDir ==
  (last.op = "export" /\ NoRepoDir(last.pre)) =>
    /\ last.err = "" /\ ~last.success
    /\ fs = last.pre

-----------------------------------------------------------------------------
(* C18 *)

AllDigits(s, from, to) == from <= to /\ \A k \in from..to : IsDigit(s[k])

\* s is MAJOR.MINOR.PATCH between positions lo and hi, its dots at p and q
TripleAt(s, lo, hi, p, q) ==
  /\ s[p] = "." /\ s[q] = "."
  /\ AllDigits(s, lo, p - 1) /\ AllDigits(s, p + 1, q - 1) /\ AllDigits(s, q + 1, hi)

Blank(s, from, to) == \A k \in from..to : s[k] \in WhiteSpace

\* s is white space, MAJOR.MINOR.PATCH, white space; its three numbers
Shapes(s) ==
  {<<Number(SubSeq(s, lo, p - 1)), Number(SubSeq(s, p + 1, q - 1)),
     Number(SubSeq(s, q + 1, hi))>> :
   <<lo, hi, p, q>> \in
     {x \in (1..Len(s)) \X (1..Len(s)) \X (1..Len(s)) \X (1..Len(s)) :
        /\ x[1] < x[3] /\ x[3] < x[4] /\ x[4] < x[2]
        /\ Blank(s, 1, x[1] - 1) /\ Blank(s, x[2] + 1, Len(s))
        /\ TripleAt(s, x[1], x[2], x[3], x[4])}}

\* l is greater than c in the lexicographic order of triples
LexGreater(l, c) ==
  \/ l[1] > c[1]
  \/ l[1] = c[1] /\ l[2] > c[2]
  \/ l[1] = c[1] /\ l[2] = c[2] /\ l[3] > c[3]

\* C18: isOutdated(current, latest) is true exactly when both strings are
\* MAJOR.MINOR.PATCH (white space around it trimmed) and the triple of
\* latest is greater than that of current in lexicographic order; so it
\* is false for equal versions, for an older latest and when either
\* string fails to parse, and it is irreflexive and asymmetric.
C18_OutdatedIsLexGreater ==
  last.op = "isOutdated" =>
    /\ last.outdated <=>
         \E c \in Shapes(last.current), l \in Shapes(last.latest) : LexGreater(l, c)
    /\ ~isOutdated(last.current, last.current)
    /\ last.outdated => ~isOutdated(last.latest, last.current)
    /\ (parseVersion(last.current) = NoVersion \/ parseVersion(last.latest) = NoVersion)
         => ~last.outdated

\* 1.0.2 against a padded 1.0.10: newer by number, older as text
C18_Witness ==
  /\ last.op = "isOutdated" /\ last.outdated
  /\ last.current = Dotted(<<"1">>, <<"0">>, <<"2">>)
  /\ last.latest = <<" ">> \o Dotted(<<"1">>, <<"0">>, <<"1", "0">>) \o <<"\n">>

-----------------------------------------------------------------------------
(* C19 *)

\* C19 as stated: backup(path) on a path that is a symlink returns null,
\* creates no backup, and unlinks the symlink, so that nothing exists at
\* path afterwards.
C19_BackupUnlinksSymlink ==
  (last.op = "backup" /\ isSymlink(last.pre, last.path)) =>
    /\ last.ret = Null
    /\ DOMAIN fs \subseteq DOMAIN last.pre
    /\ ~isSymlink(fs, last.path)
    /\ ~exists(fs, last.path)

\* what the code does on a symlink: null, and the file system as it was
C19_SymlinkKept ==
  (last.op = "backup" /\ isSymlink(last.pre, last.path)) =>
    /\ last.ret = Null
    /\ fs = last.pre

C19_Reached ==
  last.op = "backup" /\ isSymlink(last.pre, last.path) /\ exists(last.pre, last.path)

-----------------------------------------------------------------------------
(* C20 *)

\* physical paths of the system side of the tool
SystemSide(f) == {p \in DOMAIN f : IsPrefix(getConfigPath(tool), p)}

\* real content at p that the operation replaced by content of the other
\* kind: a directory where a file had to be, a file where a directory had
\* to be
Unblocked(p) ==
  \/ KindAt(last.pre, p) = "dir" /\ KindAt(fs, p) \in {"file", "link"}
  \/ KindAt(last.pre, p) = "file" /\ KindAt(fs, p) = "dir"

\* <p>.backup holds what p held before the operation
BackupHolds(p) ==
  /\ BackupPath(p) \in DOMAIN fs
  /\ Tree(fs, BackupPath(p)) = Tree(last.pre, p)

\* names a backed-up path of the tool can have
BackedUpNames ==
  {Last(k) : k \in DOMAIN last.pre \cup DOMAIN fs}
  \cup {syncPatterns(tool)[i] : i \in 1..Len(syncPatterns(tool))}

\* the <p>.backup paths that existed before the operation, each with its p
OldBackupsOf(f) ==
  {<<p, BackupPath(p)>> :
   p \in {join(Parent(b), n) : b \in DOMAIN f \ {<<>>}, n \in BackedUpNames}}
  \cap {x \in Seq(STRING) \X Seq(STRING) : x[2] \in DOMAIN f}

\* an ancestor of b was moved as a whole to its own backup path
MovedAbove(b) ==
  \E n \in 1..(Len(b) - 1) :
    /\ RealContent(last.pre, SubSeq(b, 1, n))
    /\ BackupHolds(SubSeq(b, 1, n))

\* unsync leaves a backup of the real content it removes
C20_UnsyncBacksUp ==
  last.op = "unsync" => \A p \in SystemSide(last.pre) : Unblocked(p) => BackupHolds(p)

\* an existing backup is deleted only by a new backup of the same path
C20_BackupsKept ==
  last.op \in {"import", "export", "unsync"} =>
    \A x \in OldBackupsOf(last.pre) :
      \/ Tree(fs, x[2]) = Tree(last.pre, x[2])
      \/ RealContent(last.pre, x[1]) /\ BackupHolds(x[1])
      \/ MovedAbove(x[2])

\* C20 as stated: whenever unsync removes real content on the system side
\* (a directory blocking a file, a file blocking a needed directory) a
\* <path>.backup sibling holding that content is left behind, and no
\* import, export or unsync deletes an existing <path>.backup except when
\* creating a new backup for that same path.
C20_UnsyncLeavesBackups == C20_UnsyncBacksUp /\ C20_BackupsKept

-----------------------------------------------------------------------------
(* C21 *)

\* the tool of the turn that is due is one unsync has to leave alone
LeftAlone(id) ==
  /\ id \in Registered
  /\ \/ exportStrategy(id) # "symlink"
     \/ ~isLinked(id, fs, getConfigPath(id), getRepoPath(id))

\* the turn raised skipCount and no other counter
CountedSkipped ==
  /\ batch'.skipCount = batch.skipCount + 1
  /\ batch'.successCount = batch.successCount
  /\ batch'.failCount = batch.failCount

UnsyncTurn == batch.op = "unsync" /\ TurnDue /\ batch'.i = batch.i + 1

\* C21: a turn of unsync for a tool whose export strategy is not symlink,
\* or that is not linked, changes nothing on the filesystem and counts the
\* tool as skipped; the filesystem changes only in turns of tools that are
\* symlink-export and linked.
C21_UnsyncSkips ==
  [][UnsyncTurn =>
       /\ LeftAlone(batch.agents[batch.i]) => (fs' = fs /\ CountedSkipped)
       /\ fs' # fs =>
            /\ batch.agents[batch.i] \in Registered
            /\ exportStrategy(batch.agents[batch.i]) = "symlink"
            /\ isLinked(batch.agents[batch.i], fs,
                        getConfigPath(batch.agents[batch.i]),
                        getRepoPath(batch.agents[batch.i]))]_vars

\* both kinds of skipped turn and a turn that unsynced, in one run
C21_Witness ==
  /\ batch.op = "unsync" /\ batch.skipCount >= 2 /\ batch.successCount >= 1
  /\ \E j, k \in 1..Len(batch.log) :
       /\ batch.log[j].message = "copy strategy - skipped"
       /\ batch.log[k].message = "not linked - skipped"

-----------------------------------------------------------------------------
(* C22 *)

\* the link at p is at the destination, as a link with the same target
Recreated(p) ==
  /\ KindAt(fs, DestOf(p)) = "link"
  /\ fs[DestOf(p)].target = last.pre[p].target

\* C22: after copyDir has returned, every symlink of the source whose
\* target exists is at the destination as a symlink with the identical
\* stored target, and a broken symlink of the source has left the
\* destination as it was.
C22_LinksRecreated ==
  (last.op = "copyDir" /\ last.err = "") =>
    \A p \in SourceEntries({"link"}) :
      IF exists(last.pre, p) THEN Recreated(p)
      ELSE Tree(fs, DestOf(p)) = Tree(last.pre, DestOf(p))

\* what holds: the same, for the links with no directory at their place
\* under the destination
C22_RecreatedUnlessBlocked ==
  (last.op = "copyDir" /\ last.err = "") =>
    \A p \in SourceEntries({"link"}) :
      IF exists(last.pre, p)
        THEN KindAt(last.pre, DestOf(p)) # "dir" => Recreated(p)
        ELSE Tree(fs, DestOf(p)) = Tree(last.pre, DestOf(p))

-----------------------------------------------------------------------------
(* C23 *)

CandidateExists(f, i) == exists(f, Clawdbot_configPaths[i])

\* the first candidate that exists, else the primary candidate
FirstExisting(f) ==
  IF \E i \in 1..Len(Clawdbot_configPaths) : CandidateExists(f, i)
    THEN Clawdbot_configPaths[CHOOSE i \in 1..Len(Clawdbot_configPaths) :
           /\ CandidateExists(f, i)
           /\ \A j \in 1..(i - 1) : ~CandidateExists(f, j)]
    ELSE Clawdbot_configPaths[1]

SeveralExist(f) ==
  \E i, j \in 1..Len(Clawdbot_configPaths) :
    i # j /\ CandidateExists(f, i) /\ CandidateExists(f, j)

ConfigPathIsFirstExisting ==
  last.op = "getConfigPath" => last.ret = FirstExisting(last.pre)

\* C23 as stated: getConfigPath returns the first candidate that exists,
\* else the primary candidate; and export, when more than one candidate
\* exists, returns success=false asking for manual resolution and changes
\* nothing on the filesystem.
C23_SeveralRootsRefused ==
  /\ ConfigPathIsFirstExisting
  /\ (last.op = "export" /\ SeveralExist(last.pre)) =>
       /\ ~last.success /\ last.err = ""
       /\ last.message = "Multiple config paths exist"
       /\ fs = last.pre

\* C23, amended: the same, the refusal asking for manual resolution when
\* the repo path exists; when it does not, export fails on that first and
\* reports the configs as not found in the repo.
C23_SeveralRootsNeverLinked ==
  /\ ConfigPathIsFirstExisting
  /\ (last.op = "export" /\ SeveralExist(last.pre)) =>
       /\ ~last.success /\ last.err = ""
       /\ last.message = IF exists(last.pre, getRepoPath("clawdbot"))
                           THEN "Multiple config paths exist"
                           ELSE "not found in repo"
       /\ fs = last.pre

\* both candidates hold real content, the repo has the configs, and the
\* export was refused
C23_Witness ==
  /\ last.op = "export" /\ ~last.success
  /\ last.message = "Multiple config paths exist"
  /\ \A i \in 1..Len(Clawdbot_configPaths) :
       RealContent(last.pre, Clawdbot_configPaths[i])

-----------------------------------------------------------------------------
(* C24 *)

LinkedOnSystem(f) ==
  /\ isSymlink(f, ToolSkillsPath)
  /\ getSymlinkTarget(f, ToolSkillsPath) = Abs(getSharedSkillsPath)

\* nothing outside the given paths has changed
OnlyChanged(paths) ==
  \A k \in DOMAIN fs \cup DOMAIN last.pre :
    (\A p \in paths : ~IsPrefix(p, k)) =>
      (k \in DOMAIN fs /\ k \in DOMAIN last.pre /\ fs[k] = last.pre[k])

-----------------------------------------------------------------------------
(* C25 *)

SharedRepoPath == getSharedSkillsRepoPath(AgentRepoPath)

\* the relative path from agentRepoPath to sharedRepoPath: up to the
\* repository root, then down
RelativeToShared == Rel(<<"..", "..", ".agents", SHARED_SKILLS_DIRNAME>>)

LinkedInRepo(f) ==
  /\ isSymlink(f, RepoSkillsLink)
  /\ getSymlinkTarget(f, RepoSkillsLink) = RelativeToShared

\* C25: after linkSharedSkillsInRepo(agentRepoPath, sharedRepoPath) has
\* returned, agentRepoPath/skills is a symlink whose stored target is the
\* relative path from agentRepoPath to sharedRepoPath, not an absolute
\* path, and which resolves to sharedRepoPath; a link that was already so
\* is left as it was; and content that was at agentRepoPath/skills and
\* was no symlink is at skills.backup.
C25_LinkedInRepo ==
  (last.op = "linkSharedSkillsInRepo" /\ last.err = "") =>
    /\ LinkedInRepo(fs)
    /\ ~getSymlinkTarget(fs, RepoSkillsLink).abs
    /\ Real(fs, RepoSkillsLink) = Found(SharedRepoPath)
    /\ isDirectory(fs, RepoSkillsLink)
    /\ LinkedInRepo(last.pre) =>
         OnlyChanged({dirname(SharedRepoPath)})
    /\ RealContent(last.pre, RepoSkillsLink) =>
         Content(fs, BackupPath(RepoSkillsLink)) = Content(last.pre, RepoSkillsLink)
    /\ ~RealContent(last.pre, RepoSkillsLink) =>
         Content(fs, BackupPath(RepoSkillsLink)) = Content(last.pre, BackupPath(RepoSkillsLink))
    /\ OnlyChanged({RepoSkillsLink, BackupPath(RepoSkillsLink), dirname(SharedRepoPath)})

\* an absolute link to the shared directory was replaced by the relative
\* one
C25_Witness ==
  /\ last.op = "linkSharedSkillsInRepo" /\ last.err = ""
  /\ isSymlink(last.pre, RepoSkillsLink)
  /\ getSymlinkTarget(last.pre, RepoSkillsLink) = Abs(SharedRepoPath)
  /\ LinkedInRepo(fs)

-----------------------------------------------------------------------------
(* C26 *)

\* the tool the last import or export was for
ActedTool == IF tool \in Tools THEN tool ELSE batch.handled[Len(batch.handled)]

\* every path under root, but those under one of the excepted paths, is
\* as it was before the operation
SameUnder(root, excepted) ==
  \A k \in DOMAIN fs \cup DOMAIN last.pre :
    (IsPrefix(root, k) /\ \A p \in excepted : ~IsPrefix(p, k)) =>
      (k \in DOMAIN fs /\ k \in DOMAIN last.pre /\ fs[k] = last.pre[k])

\* the home directory is the system side: the tools' config roots, their
\* backups and the shared skills directory
SourceKept(skillsOnSystem, skillsInRepo) ==
  /\ last.op = "import" => SameUnder(HOME, skillsOnSystem)
  /\ last.op = "export" => SameUnder(getRepoPath(ActedTool), skillsInRepo)

\* C26 as stated: import leaves every path on the system side, the tool's
\* skills subpath included, as it was, and export leaves every path under
\* the tool's repository directory as it was.
C26_SourceUntouched == SourceKept({}, {})

\* the paths the shared-skills linker works on: on the system side the
\* tool's skills subpath, its backup and the shared directory; in the
\* repository the tool's skills slot and its backup
SystemSkillsPaths ==
  {join(getConfigPath(ActedTool), SHARED_SKILLS_DIRNAME),
   BackupPath(join(getConfigPath(ActedTool), SHARED_SKILLS_DIRNAME)),
   dirname(getSharedSkillsPath)}

RepoSkillsPaths ==
  {join(getRepoPath(ActedTool), SHARED_SKILLS_DIRNAME),
   BackupPath(join(getRepoPath(ActedTool), SHARED_SKILLS_DIRNAME))}

\* what holds: the same but for the shared-skills links (an import of
\* VSCode links the tool's skills subpath, an export of Devin links the
\* skills slot of the tool's repository directory), as long as the tool's
\* config root is no symlink
C26_SourceUntouchedButSkills ==
  (last.op \in {"import", "export"}
     /\ ~isSymlink(last.pre, getConfigPath(ActedTool))) =>
    SourceKept(IF ActedTool = "vscode" THEN SystemSkillsPaths ELSE {},
               IF ActedTool = "devin" THEN RepoSkillsPaths ELSE {})

-----------------------------------------------------------------------------
(* C27 *)

\* the system path is a symlink to the tool's repo directory: the
\* state a successful export of a root-linking adapter leaves
RootLinked(f) ==
  /\ isSymlink(f, getConfigPath(tool))
  /\ getSymlinkTarget(f, getConfigPath(tool)) = Abs(getRepoPath(tool))
  /\ isDirectory(f, getRepoPath(tool))

-----------------------------------------------------------------------------
(* C28 *)

AllComputed == last.sync # NoPath /\ last.status # NoPath /\ last.unsync # NoPath

\* C28 as stated: for every configured repoPath the sync command, the
\* status command and the unsync command compute the same repo path for a
\* tool, also for "~" and "~name".
C28_SameRepoPath ==
  AllComputed => (last.sync = last.status /\ last.status = last.unsync)

\* what holds: status and unsync always agree, and sync agrees with them
\* when HOME is set and repoPath is "~/..." or does not begin with "~"
C28_SameUnlessTildeName ==
  AllComputed =>
    /\ last.status = last.unsync
    /\ (last.envHome = HomeDir
        /\ (startsWith(last.repoPath, <<"~", "/">>) \/ ~startsWith(last.repoPath, <<"~">>)))
         => last.sync = last.status

-----------------------------------------------------------------------------
(* C29 *)

OneEntryPerId ==
  \A j, k \in 1..Len(adapters) : adapters[j].id = adapters[k].id => j = k

\* the adapters of the entries that are enabled, in the order of getAll
EnabledOfAll ==
  SelectSeq([k \in 1..Len(adapters) |-> <<getAll(adapters)[k], adapters[k].enabled>>],
            LAMBDA x : x[2])

\* C29: after any sequence of register, enable, disable, unregister and
\* clear there is at most one entry per adapter id, register having put
\* its adapter in the place of an older one of the same id; get(id) is
\* non-null exactly when has(id); getEnabled() is the part of getAll()
\* whose enabled bit is set; and enable and disable of an id that is not
\* registered return false and leave the registry as it was.
C29_RegistryConsistent ==
  tool = "registry" =>
    /\ OneEntryPerId
    /\ \A k \in 1..Len(adapters) : adapters[k].adapter.id = adapters[k].id
    /\ last.op = "register" =>
         /\ has(adapters, last.id)
         /\ Len(adapters) = Len(last.pre) + (IF has(last.pre, last.id) THEN 0 ELSE 1)
         /\ \A id \in RegistryIds \ {last.id} : get(adapters, id) = get(last.pre, id)
    /\ \A id \in RegistryIds : (get(adapters, id) # NoAdapter) <=> has(adapters, id)
    /\ getEnabled(adapters) = [k \in 1..Len(EnabledOfAll) |-> EnabledOfAll[k][1]]
    /\ (last.op \in {"enable", "disable"} /\ ~has(last.pre, last.id)) =>
         (~last.ret /\ adapters = last.pre)
    /\ (last.op \in {"enable", "disable"} /\ has(last.pre, last.id)) =>
         (last.ret /\ getAll(adapters) = getAll(last.pre))

\* an id registered a second time with another adapter object among two
\* other entries, one of them disabled
C29_Witness ==
  /\ tool = "registry" /\ last.op = "register" /\ Len(adapters) = 3
  /\ has(last.pre, last.id)
  /\ get(adapters, last.id) # get(last.pre, last.id)
  /\ Len(getEnabled(adapters)) = 2

-----------------------------------------------------------------------------
(* C30 *)

Occurrences(list, id) == Cardinality({k \in 1..Len(list) : list[k] = id})

\* some id of the list uses shared skills and "agents" is not in it
NeedsSharedAgent(list) ==
  /\ \E k \in 1..Len(list) : list[k] \in sharedSkillsAgents
  /\ \A k \in 1..Len(list) : list[k] # "agents"

\* C30: ensureSharedSkillsAgent(ids) is ids with "agents" appended exactly
\* when some id uses shared skills and "agents" is not already in ids, and
\* ids itself otherwise; the ids of the input stay in their order, none is
\* removed, none occurs more often than before ("agents" at most once when
\* it was absent), and applying it to its own result changes nothing.
C30_EnsureAppendsOnce ==
  (tool = "ensure" /\ last.op = "ensureSharedSkillsAgent") =>
    /\ NeedsSharedAgent(last.agentIds) => last.ret = last.agentIds \o <<"agents">>
    /\ ~NeedsSharedAgent(last.agentIds) => last.ret = last.agentIds
    /\ Len(last.ret) >= Len(last.agentIds)
    /\ SubSeq(last.ret, 1, Len(last.agentIds)) = last.agentIds
    /\ \A id \in BatchIds :
         Occurrences(last.ret, id) =
           Occurrences(last.agentIds, id)
             + (IF id = "agents" /\ Occurrences(last.agentIds, id) = 0
                     /\ last.ret # last.agentIds THEN 1 ELSE 0)
    /\ ensureSharedSkillsAgent(last.ret) = last.ret

\* "agents" added after a tool without and a tool with shared skills
C30_Witness ==
  /\ tool = "ensure" /\ last.op = "ensureSharedSkillsAgent"
  /\ last.agentIds = <<"trae", "cursor">>
  /\ last.ret = <<"trae", "cursor", "agents">>

\* a list that already holds "agents" beside a shared-skills tool comes
\* back as it is
C30_AlreadyPresent ==
  /\ tool = "ensure" /\ last.op = "ensureSharedSkillsAgent"
  /\ last.agentIds = <<"agents", "claude", "claude">>
  /\ last.ret = last.agentIds

====
